---- MODULE Spec2Model ----
(***************************************************************************)
(* Model of phaser-test-utils.                                             *)
(*                                                                         *)
(* Specifications: Spec (the layout API), BootSpec (createTestGame, its    *)
(* timers, the engine's frame loop and step), ConfigSpec (the engine       *)
(* configuration createTestGame builds and the textures it forces ready),  *)
(* TeardownSpec (BootSpec with the handle's destroy), FaultSpec (BootSpec  *)
(* with an engine that raises exceptions), KeyboardSpec and PointerSpec    *)
(* (the simulated input on a game that createTestGame resolved with).      *)
(*                                                                         *)
(* Layout part: a test program calls one layout assertion (or one vitest   *)
(* matcher) at a time on operands drawn from a bounded pool; the call, its *)
(* outcome and the sub-checks it ran are recorded, then the call returns.  *)
(* Coordinates are integers; the two centre projections are kept in        *)
(* half-pixel units (twice the value) so that x + width/2 stays exact.     *)
(***************************************************************************)
EXTENDS Integers, Sequences, FiniteSets, TLC

VARIABLES pc, call, outcome, log

\* the test game: the promise createTestGame returned and the calls made to
\* its resolve and reject functions, the engine, the status of its first
\* scene, its frame loop, the two timers of the bootstrap (<<>> when not
\* armed, <<n>> when due in n ms) and the counters of frames
VARIABLES promise, settleCalls, engine, sceneStatus, loopRunning, autoRuns,
          timeoutIn, pollIn, updateCount, pipelineRuns, requested

\* game.pendingDestroy: the game is flagged to be destroyed by its next frame
VARIABLES pendingDestroy

\* game.textures: the pending-load counter, the keys that exist, the events
\* that have listeners, and the calls and signals of the subsystem so far
VARIABLES textures

\* the exceptions that left a timer callback: nothing catches them
VARIABLES uncaught

\* game.input: which of the input manager, its keyboard manager and its mouse
\* pointer exist, the keyboard manager's queue of events and the state of the
\* mouse pointer
VARIABLES input, keyQueue, pointer

inputVars == <<input, keyQueue, pointer>>

gameVars ==
    <<promise, settleCalls, engine, sceneStatus, loopRunning, autoRuns,
      timeoutIn, pollIn, updateCount, pipelineRuns, requested,
      pendingDestroy, textures, uncaught, inputVars>>

vars == <<pc, call, outcome, log, gameVars>>

-----------------------------------------------------------------------------
(* Bounds of the input pools *)

MaxCoord == 1
MaxSize == 1
MaxTolerance == 0
MaxMinPixels == 2
MaxLen == 3
MaxChildren == 2
ListMaxX == 2

-----------------------------------------------------------------------------
(* Rectangles (Phaser.Geom.Rectangle) and bounds-like operands *)

Rect(x, y, w, h) == [x |-> x, y |-> y, width |-> w, height |-> h]

right(r) == r.x + r.width

bottom(r) == r.y + r.height

\* twice centerX = 2 * (x + width / 2)
centerX2(r) == 2 * r.x + r.width

\* twice centerY = 2 * (y + height / 2)
centerY2(r) == 2 * r.y + r.height

PlainRect(r) == [kind |-> "rect", bounds |-> r]

GameObject(r) == [kind |-> "object", bounds |-> r]

\* a value that is neither a Rectangle nor has getBounds()
NotBounded == [kind |-> "other"]

\* null (or undefined), as a failed lookup returns it
Null == [kind |-> "null"]

GridRects ==
    {Rect(x, y, w, h) : x \in 0..MaxCoord, y \in 0..MaxCoord,
                        w \in 0..MaxSize, h \in 0..MaxSize}

\* world bounds of the scene rectangles the test suite creates
\* (this.add.rectangle(cx, cy, w, h) has origin 0.5: x = cx - w/2)
SceneBounds ==
    {Rect(30, 30, 40, 40), Rect(130, 30, 40, 40), Rect(40, 30, 40, 40),
     Rect(240, 190, 120, 60), Rect(60, 30, 60, 40)}

Operands ==
    {PlainRect(r) : r \in GridRects \cup {Rect(0, 0, 100, 100)}}
        \cup {GameObject(r) : r \in SceneBounds}
        \cup {NotBounded, Null}

Axes == {"centerX", "centerY", "top", "bottom", "left", "right"}

\* an optional argument is <<>> when omitted and <<v>> when given
Tolerances == {<<>>} \cup {<<t>> : t \in 0..MaxTolerance}

MinPixels == (-1..MaxMinPixels) \cup {50, 61, 150}

\* two rows of 2 x 1 boxes at every column, and one unit box
ListRects ==
    {Rect(x, y, 2, 1) : x \in 0..ListMaxX, y \in {0, 1}} \cup {Rect(0, 0, 1, 1)}

ListOperands == {PlainRect(r) : r \in ListRects} \cup {NotBounded}

Containers ==
    {PlainRect(Rect(0, 0, 3, 2)), PlainRect(Rect(0, 0, 2, 1)),
     PlainRect(Rect(1, 0, 2, 2)), NotBounded}

SeqsUpTo(S, n) == UNION {[1..k -> S] : k \in 0..n}

OptBool == {<<>>, <<TRUE>>, <<FALSE>>}

\* rectangles handed to the debug renderer: narrow and wide, flat and tall,
\* so that grids are drawn unscaled and scaled on either axis
DebugMaxY == 1

DebugRects ==
    {Rect(x, y, w, h) : x \in {0, 39, 51}, y \in 0..DebugMaxY,
                        w \in {0, 2, 40, 100}, h \in {2, 30}}

LayoutOptions ==
    {<<>>} \cup {<<[noOverlaps |-> o, containChildren |-> c]>> :
                    o \in OptBool, c \in OptBool}

-----------------------------------------------------------------------------
(* Results of a call *)

Returned == [threw |-> FALSE]

Thrown(error, magnitude) ==
    [threw |-> TRUE, error |-> error, magnitude |-> magnitude]

BoundsError == Thrown("Cannot get bounds", 0)

\* reading a property of null or undefined
TypeError == Thrown("TypeError", 0)

MatcherResult(pass, message) ==
    [threw |-> FALSE, pass |-> pass, message |-> message]

Max(m, n) == IF m >= n THEN m ELSE n

Abs(n) == IF n < 0 THEN -n ELSE n

-----------------------------------------------------------------------------
(* utils/bounds: resolveBounds returns a Rectangle itself and a game object's
   getBounds(); for any other value it throws, which hasBounds tells apart *)

hasBounds(obj) == obj.kind \in {"rect", "object"}

resolveBounds(obj) == obj.bounds

\* what resolveBounds throws for a value without bounds
resolveError(obj) == IF obj.kind = "null" THEN TypeError ELSE BoundsError

\* the two operands are resolved in order: the first that has no bounds
\* ends the call
resolveThrows(first, second) ==
    IF ~hasBounds(first) THEN resolveError(first) ELSE resolveError(second)

-----------------------------------------------------------------------------
(* Phaser.Geom.Rectangle.Overlaps: strict on every edge *)

Overlaps(rectA, rectB) ==
    /\ rectA.x < right(rectB)
    /\ right(rectA) > rectB.x
    /\ rectA.y < bottom(rectB)
    /\ bottom(rectA) > rectB.y

-----------------------------------------------------------------------------
(* layout/assertions *)

\* the selected projection in half-pixel units (twice its value)
getAxisValue(bounds, axis) ==
    CASE axis = "centerX" -> centerX2(bounds)
      [] axis = "centerY" -> centerY2(bounds)
      [] axis = "top" -> 2 * bounds.y
      [] axis = "bottom" -> 2 * bottom(bounds)
      [] axis = "left" -> 2 * bounds.x
      [] axis = "right" -> 2 * right(bounds)

\* variant: edges that merely touch count as an overlap
expectNoOverlap_touching(a, b) ==
    IF ~hasBounds(a) \/ ~hasBounds(b) THEN resolveThrows(a, b)
    ELSE LET boundsA == resolveBounds(a)
             boundsB == resolveBounds(b)
         IN  IF /\ boundsA.x <= right(boundsB)
                /\ right(boundsA) >= boundsB.x
                /\ boundsA.y <= bottom(boundsB)
                /\ bottom(boundsA) >= boundsB.y
             THEN Thrown("expectNoOverlap failed", 0)
             ELSE Returned

expectNoOverlap(a, b) ==
    IF ~hasBounds(a) \/ ~hasBounds(b) THEN resolveThrows(a, b)
    ELSE LET boundsA == resolveBounds(a)
             boundsB == resolveBounds(b)
         IN  IF Overlaps(boundsA, boundsB)
             THEN Thrown("expectNoOverlap failed", 0)
             ELSE Returned

\* variant: the strict test of Phaser.Geom.Rectangle.ContainsRect
contained_strict(childBounds, parentBounds) ==
    /\ childBounds.x > parentBounds.x
    /\ childBounds.y > parentBounds.y
    /\ right(childBounds) < right(parentBounds)
    /\ bottom(childBounds) < bottom(parentBounds)

contained(childBounds, parentBounds) ==
    /\ childBounds.x >= parentBounds.x
    /\ childBounds.y >= parentBounds.y
    /\ right(childBounds) <= right(parentBounds)
    /\ bottom(childBounds) <= bottom(parentBounds)

\* layout/debug: the lines of the overflow report, one <<direction, pixels>>
\* per edge of the parent that the child passes

\* variant: the top overflow is measured downwards
formatContainmentDebug_flipped(childBounds, parentBounds) ==
    LET overLeft == parentBounds.x - childBounds.x
        overRight == right(childBounds) - right(parentBounds)
        overTop == childBounds.y - parentBounds.y
        overBottom == bottom(childBounds) - bottom(parentBounds)
    IN  SelectSeq(<< <<"Left", overLeft>>, <<"Right", overRight>>,
                     <<"Top", overTop>>, <<"Bottom", overBottom>> >>,
                  LAMBDA line : line[2] > 0)

formatContainmentDebug(childBounds, parentBounds) ==
    LET overLeft == parentBounds.x - childBounds.x
        overRight == right(childBounds) - right(parentBounds)
        overTop == parentBounds.y - childBounds.y
        overBottom == bottom(childBounds) - bottom(parentBounds)
    IN  SelectSeq(<< <<"Left", overLeft>>, <<"Right", overRight>>,
                     <<"Top", overTop>>, <<"Bottom", overBottom>> >>,
                  LAMBDA line : line[2] > 0)

expectContainedIn(child, parent) ==
    IF ~hasBounds(child) \/ ~hasBounds(parent) THEN resolveThrows(child, parent)
    ELSE LET childBounds == resolveBounds(child)
             parentBounds == resolveBounds(parent)
         IN  IF ~contained(childBounds, parentBounds)
             THEN [threw |-> TRUE, error |-> "expectContainedIn failed",
                   magnitude |-> 0,
                   overflow |->
                       formatContainmentDebug(childBounds, parentBounds)]
             ELSE Returned

\* tolerance parameter: default 1 when omitted
toleranceOrDefault(tolerance) ==
    IF tolerance = <<>> THEN 1 ELSE tolerance[1]

\* variant: a difference of exactly the tolerance fails
expectAligned_exclusive(a, b, axis, tolerance) ==
    IF ~hasBounds(a) \/ ~hasBounds(b) THEN resolveThrows(a, b)
    ELSE LET valueA == getAxisValue(resolveBounds(a), axis)
             valueB == getAxisValue(resolveBounds(b), axis)
             diff == Abs(valueA - valueB)
         IN  IF diff >= 2 * toleranceOrDefault(tolerance)
             THEN Thrown("expectAligned", diff)
             ELSE Returned

\* diff is in half-pixel units, so it is compared with twice the tolerance;
\* the message starts expectAligned("<axis>") failed
expectAligned(a, b, axis, tolerance) ==
    IF ~hasBounds(a) \/ ~hasBounds(b) THEN resolveThrows(a, b)
    ELSE LET valueA == getAxisValue(resolveBounds(a), axis)
             valueB == getAxisValue(resolveBounds(b), axis)
             diff == Abs(valueA - valueB)
         IN  IF diff > 2 * toleranceOrDefault(tolerance)
             THEN Thrown("expectAligned", diff)
             ELSE Returned

\* variant: the smaller of the two axis gaps
gapBetween_min(boundsA, boundsB) ==
    LET gapRight == boundsB.x - right(boundsA)
        gapLeft == boundsA.x - right(boundsB)
        gapBelow == boundsB.y - bottom(boundsA)
        gapAbove == boundsA.y - bottom(boundsB)
        horizontalGap == Max(gapRight, gapLeft)
        verticalGap == Max(gapBelow, gapAbove)
    IN  IF horizontalGap <= verticalGap THEN horizontalGap ELSE verticalGap

gapBetween(boundsA, boundsB) ==
    LET gapRight == boundsB.x - right(boundsA)
        gapLeft == boundsA.x - right(boundsB)
        gapBelow == boundsB.y - bottom(boundsA)
        gapAbove == boundsA.y - bottom(boundsB)
        horizontalGap == Max(gapRight, gapLeft)
        verticalGap == Max(gapBelow, gapAbove)
    IN  Max(horizontalGap, verticalGap)

\* variant: a gap of exactly minPixels fails
expectMinGap_strict(a, b, minPixels) ==
    IF ~hasBounds(a) \/ ~hasBounds(b) THEN resolveThrows(a, b)
    ELSE LET gap == gapBetween(resolveBounds(a), resolveBounds(b))
         IN  IF gap <= minPixels
             THEN Thrown("expectMinGap failed", gap)
             ELSE Returned

expectMinGap(a, b, minPixels) ==
    IF ~hasBounds(a) \/ ~hasBounds(b) THEN resolveThrows(a, b)
    ELSE LET gap == gapBetween(resolveBounds(a), resolveBounds(b))
         IN  IF gap < minPixels
             THEN Thrown("expectMinGap failed", gap)
             ELSE Returned

\* variant: an upper object that touches the lower one fails
expectAbove_noTouch(upper, lower) ==
    IF ~hasBounds(upper) \/ ~hasBounds(lower) THEN resolveThrows(upper, lower)
    ELSE LET upperBounds == resolveBounds(upper)
             lowerBounds == resolveBounds(lower)
         IN  IF bottom(upperBounds) >= lowerBounds.y
             THEN Thrown("expectAbove failed",
                         bottom(upperBounds) - lowerBounds.y)
             ELSE Returned

expectAbove(upper, lower) ==
    IF ~hasBounds(upper) \/ ~hasBounds(lower) THEN resolveThrows(upper, lower)
    ELSE LET upperBounds == resolveBounds(upper)
             lowerBounds == resolveBounds(lower)
         IN  IF bottom(upperBounds) > lowerBounds.y
             THEN Thrown("expectAbove failed",
                         bottom(upperBounds) - lowerBounds.y)
             ELSE Returned

\* variant: a left object that touches the right one fails
expectLeftOf_noTouch(left, rightObj) ==
    IF ~hasBounds(left) \/ ~hasBounds(rightObj) THEN resolveThrows(left, rightObj)
    ELSE LET leftBounds == resolveBounds(left)
             rightBounds == resolveBounds(rightObj)
         IN  IF right(leftBounds) >= rightBounds.x
             THEN Thrown("expectLeftOf failed",
                         right(leftBounds) - rightBounds.x)
             ELSE Returned

expectLeftOf(left, rightObj) ==
    IF ~hasBounds(left) \/ ~hasBounds(rightObj) THEN resolveThrows(left, rightObj)
    ELSE LET leftBounds == resolveBounds(left)
             rightBounds == resolveBounds(rightObj)
         IN  IF right(leftBounds) > rightBounds.x
             THEN Thrown("expectLeftOf failed",
                         right(leftBounds) - rightBounds.x)
             ELSE Returned

\* the loops return the result together with the sub-checks they ran, in order
RECURSIVE NoOverlapsLoop(_, _, _, _)
NoOverlapsLoop(objects, i, j, ran) ==
    IF i > Len(objects) THEN [result |-> Returned, log |-> ran]
    ELSE IF j > Len(objects) THEN NoOverlapsLoop(objects, i + 1, i + 2, ran)
    ELSE LET r == expectNoOverlap(objects[i], objects[j])
             ran2 == Append(ran, <<"expectNoOverlap", i, j>>)
         IN  IF r.threw THEN [result |-> r, log |-> ran2]
             ELSE NoOverlapsLoop(objects, i, j + 1, ran2)

\* variant: only neighbouring list elements are compared
RECURSIVE NeighboursLoop(_, _, _)
NeighboursLoop(objects, i, ran) ==
    IF i + 1 > Len(objects) THEN [result |-> Returned, log |-> ran]
    ELSE LET r == expectNoOverlap(objects[i], objects[i + 1])
             ran2 == Append(ran, <<"expectNoOverlap", i, i + 1>>)
         IN  IF r.threw THEN [result |-> r, log |-> ran2]
             ELSE NeighboursLoop(objects, i + 1, ran2)

expectNoOverlaps_neighbours(objects) == NeighboursLoop(objects, 1, <<>>)

expectNoOverlaps(objects) == NoOverlapsLoop(objects, 1, 2, <<>>)

RECURSIVE AllContainedLoop(_, _, _, _)
AllContainedLoop(children, parent, k, ran) ==
    IF k > Len(children) THEN [result |-> Returned, log |-> ran]
    ELSE LET r == expectContainedIn(children[k], parent)
             ran2 == Append(ran, <<"expectContainedIn", k, 0>>)
         IN  IF r.threw THEN [result |-> r, log |-> ran2]
             ELSE AllContainedLoop(children, parent, k + 1, ran2)

expectAllContainedIn(children, parent) ==
    AllContainedLoop(children, parent, 1, <<>>)

\* an option is true unless it is given as false
optionOrTrue(opts, name) ==
    IF opts = <<>> THEN TRUE
    ELSE IF opts[1][name] = <<>> THEN TRUE ELSE opts[1][name][1]

\* variant: the overlap check runs before the containment check
expectValidLayout_overlapFirst(children, container, opts) ==
    LET noOverlaps == optionOrTrue(opts, "noOverlaps")
        containChildren == optionOrTrue(opts, "containChildren")
        first == IF noOverlaps
                 THEN expectNoOverlaps(children)
                 ELSE [result |-> Returned, log |-> <<>>]
    IN  IF first.result.threw THEN first
        ELSE IF containChildren
        THEN LET second == expectAllContainedIn(children, container)
             IN  [result |-> second.result, log |-> first.log \o second.log]
        ELSE first

expectValidLayout(children, container, opts) ==
    LET noOverlaps == optionOrTrue(opts, "noOverlaps")
        containChildren == optionOrTrue(opts, "containChildren")
        first == IF containChildren
                 THEN expectAllContainedIn(children, container)
                 ELSE [result |-> Returned, log |-> <<>>]
    IN  IF first.result.threw THEN first
        ELSE IF noOverlaps
        THEN LET second == expectNoOverlaps(children)
             IN  [result |-> second.result, log |-> first.log \o second.log]
        ELSE first

-----------------------------------------------------------------------------
(* layout/matchers: the vitest matchers registered by setupLayoutMatchers *)

toOverlapWith(received, other) ==
    IF ~hasBounds(received) \/ ~hasBounds(other) THEN resolveThrows(received, other)
    ELSE LET boundsA == resolveBounds(received)
             boundsB == resolveBounds(other)
             overlaps == Overlaps(boundsA, boundsB)
         IN  IF overlaps
             THEN MatcherResult(TRUE, "expected NOT to overlap with")
             ELSE MatcherResult(FALSE, "expected to overlap with")

toBeContainedIn(received, parent) ==
    IF ~hasBounds(received) \/ ~hasBounds(parent) THEN resolveThrows(received, parent)
    ELSE LET childBounds == resolveBounds(received)
             parentBounds == resolveBounds(parent)
             isContained ==
                 /\ childBounds.x >= parentBounds.x
                 /\ childBounds.y >= parentBounds.y
                 /\ right(childBounds) <= right(parentBounds)
                 /\ bottom(childBounds) <= bottom(parentBounds)
         IN  IF isContained
             THEN MatcherResult(TRUE, "expected NOT to be contained in")
             ELSE [threw |-> FALSE, pass |-> FALSE,
                   message |-> "expected to be contained in",
                   overflow |->
                       formatContainmentDebug(childBounds, parentBounds)]

\* variant: an upper object that touches the lower one is not above it
toBeAbove_noTouch(received, other) ==
    IF ~hasBounds(received) \/ ~hasBounds(other) THEN resolveThrows(received, other)
    ELSE LET upperBounds == resolveBounds(received)
             lowerBounds == resolveBounds(other)
             isAbove == bottom(upperBounds) < lowerBounds.y
         IN  MatcherResult(isAbove,
                 IF isAbove THEN "expected NOT to be above"
                 ELSE "expected to be above")

toBeAbove(received, other) ==
    IF ~hasBounds(received) \/ ~hasBounds(other) THEN resolveThrows(received, other)
    ELSE LET upperBounds == resolveBounds(received)
             lowerBounds == resolveBounds(other)
             isAbove == bottom(upperBounds) <= lowerBounds.y
         IN  MatcherResult(isAbove,
                 IF isAbove THEN "expected NOT to be above"
                 ELSE "expected to be above")

\* variant: the two message texts are exchanged
toBeLeftOf_swapped(received, other) ==
    IF ~hasBounds(received) \/ ~hasBounds(other) THEN resolveThrows(received, other)
    ELSE LET leftBounds == resolveBounds(received)
             rightBounds == resolveBounds(other)
             isLeft == right(leftBounds) <= rightBounds.x
         IN  MatcherResult(isLeft,
                 IF isLeft THEN "expected to be left of"
                 ELSE "expected NOT to be left of")

toBeLeftOf(received, other) ==
    IF ~hasBounds(received) \/ ~hasBounds(other) THEN resolveThrows(received, other)
    ELSE LET leftBounds == resolveBounds(received)
             rightBounds == resolveBounds(other)
             isLeft == right(leftBounds) <= rightBounds.x
         IN  MatcherResult(isLeft,
                 IF isLeft THEN "expected NOT to be left of"
                 ELSE "expected to be left of")

toBeAlignedWith(received, other, axis, tolerance) ==
    IF ~hasBounds(received) \/ ~hasBounds(other) THEN resolveThrows(received, other)
    ELSE LET valueA == getAxisValue(resolveBounds(received), axis)
             valueB == getAxisValue(resolveBounds(other), axis)
             diff == Abs(valueA - valueB)
             aligned == diff <= 2 * toleranceOrDefault(tolerance)
         IN  MatcherResult(aligned,
                 IF aligned THEN "expected NOT to be aligned with"
                 ELSE "expected to be aligned with")

-----------------------------------------------------------------------------
(* Phaser.Geom.Rectangle.Intersection: the common region of two rectangles
   that intersect, the empty rectangle otherwise; a rectangle without area
   intersects nothing *)

RectangleToRectangle(rectA, rectB) ==
    IF \/ rectA.width <= 0 \/ rectA.height <= 0
       \/ rectB.width <= 0 \/ rectB.height <= 0
    THEN FALSE
    ELSE ~ \/ right(rectA) < rectB.x
           \/ bottom(rectA) < rectB.y
           \/ rectA.x > right(rectB)
           \/ rectA.y > bottom(rectB)

Intersection(rectA, rectB) ==
    IF RectangleToRectangle(rectA, rectB)
    THEN LET x == Max(rectA.x, rectB.x)
             y == Max(rectA.y, rectB.y)
         IN  Rect(x, y,
                  (IF right(rectA) <= right(rectB)
                   THEN right(rectA) ELSE right(rectB)) - x,
                  (IF bottom(rectA) <= bottom(rectB)
                   THEN bottom(rectA) ELSE bottom(rectB)) - y)
    ELSE Rect(0, 0, 0, 0)

-----------------------------------------------------------------------------
(* Arithmetic of the debug grid.  The scale of an axis is the double nearest
   to limit / total, and an offset times the scale is rounded to a double
   again before Math.floor or Math.ceil sees it: when limit * offset / total
   is a whole number the product can fall just below or just above it.  The
   operators below compute the direction of that error with integers. *)

maxCols == 60

maxRows == 20

RECURSIVE PowerOfTwo(_)
PowerOfTwo(k) == IF k <= 0 THEN 1 ELSE 2 * PowerOfTwo(k - 1)

RECURSIVE PowerOfTwoMod(_, _)
PowerOfTwoMod(k, m) == IF k = 0 THEN 1 % m ELSE (2 * PowerOfTwoMod(k - 1, m)) % m

\* the j >= 0 with 2^-(j+1) <= limit / total < 2^-j, for limit < total
RECURSIVE QuotientExponent(_, _, _)
QuotientExponent(limit, total, j) ==
    IF limit * PowerOfTwo(j + 1) >= total THEN j
    ELSE QuotientExponent(limit, total, j + 1)

\* the p with 2^p <= n < 2^(p+1), for n >= 1
RECURSIVE BinaryExponent(_, _)
BinaryExponent(n, p) ==
    IF n < PowerOfTwo(p + 1) THEN p ELSE BinaryExponent(n, p + 1)

\* limit / total as a double is q / 2^k with k = 53 + j (a double has a
\* significand of 53 bits) and q the integer
\* nearest to limit * 2^k / total (ties to even); this is q * total -
\* limit * 2^k
QuotientError(limit, total) ==
    LET k == 53 + QuotientExponent(limit, total, 0)
        r == (limit * PowerOfTwoMod(k, total)) % total
        r2 == (limit * PowerOfTwoMod(k, 2 * total)) % (2 * total)
        floorIsEven == ((r2 - r) \div total) % 2 = 0
    IN  IF 2 * r < total THEN -r
        ELSE IF 2 * r > total THEN total - r
        ELSE IF floorIsEven THEN -r ELSE total - r

\* for offset > 0 with limit * offset / total a whole number n: -1, 0 or 1
\* as the double offset * (limit / total) is below, equal to or above n
ProductError(offset, limit, total) ==
    LET n == (limit * offset) \div total
        t == (offset * QuotientError(limit, total)) \div total
        p == BinaryExponent(n, 0)
        g == QuotientExponent(limit, total, 0) + p + 1
    IN  IF t > 0 THEN (IF t > PowerOfTwo(g - 1) THEN 1 ELSE 0)
        ELSE IF t < 0
        THEN IF n = PowerOfTwo(p)
             THEN (IF 4 * (-t) > PowerOfTwo(g) THEN -1 ELSE 0)
             ELSE (IF -t > PowerOfTwo(g - 1) THEN -1 ELSE 0)
        ELSE 0

\* scale of an axis: total > limit ? limit / total : 1
scaleOf(total, limit) ==
    IF total > limit THEN [limit |-> limit, total |-> total]
    ELSE [limit |-> 1, total |-> 1]

\* Math.floor and Math.ceil of offset * scale, for offset >= 0
FloorCeil(offset, scale) ==
    LET whole == (offset * scale.limit) \div scale.total
    IN  IF scale.total = 1 \/ offset = 0
        THEN [floor |-> offset * scale.limit, ceil |-> offset * scale.limit]
        ELSE IF (offset * scale.limit) % scale.total # 0
        THEN [floor |-> whole, ceil |-> whole + 1]
        ELSE LET error == ProductError(offset, scale.limit, scale.total)
             IN  [floor |-> IF error < 0 THEN whole - 1 ELSE whole,
                  ceil |-> IF error > 0 THEN whole + 1 ELSE whole]

\* Math.floor(offset * scale)
floorScaled(offset, scale) ==
    IF offset >= 0 THEN FloorCeil(offset, scale).floor
    ELSE -(FloorCeil(-offset, scale).ceil)

\* Math.ceil(offset * scale)
ceilScaled(offset, scale) ==
    IF offset >= 0 THEN FloorCeil(offset, scale).ceil
    ELSE -(FloorCeil(-offset, scale).floor)

-----------------------------------------------------------------------------
(* layout/debug: the character grid of formatOverlapDebug, a function from
   <<row, column>> to the character of the cell *)

\* the columns and rows that fillRect visits for a rectangle
raster(rect, originX, originY, scaleX, scaleY) ==
    [startCol |-> floorScaled(rect.x - originX, scaleX),
     endCol |-> ceilScaled(right(rect) - originX, scaleX),
     startRow |-> floorScaled(rect.y - originY, scaleY),
     endRow |-> ceilScaled(bottom(rect) - originY, scaleY)]

fillRect(grid, rect, originX, originY, scaleX, scaleY, char) ==
    LET span == raster(rect, originX, originY, scaleX, scaleY)
    IN  [cell \in DOMAIN grid |->
            IF /\ span.startRow <= cell[1] /\ cell[1] < span.endRow
               /\ span.startCol <= cell[2] /\ cell[2] < span.endCol
               /\ (char = "#" \/ grid[cell] = " ")
            THEN char
            ELSE grid[cell]]

formatOverlapDebug(boundsA, boundsB, intersection) ==
    LET minX == IF boundsA.x <= boundsB.x THEN boundsA.x ELSE boundsB.x
        minY == IF boundsA.y <= boundsB.y THEN boundsA.y ELSE boundsB.y
        maxX == Max(right(boundsA), right(boundsB))
        maxY == Max(bottom(boundsA), bottom(boundsB))
        totalW == maxX - minX
        totalH == maxY - minY
        scaleX == scaleOf(totalW, maxCols)
        scaleY == scaleOf(totalH, maxRows)
        cols == ceilScaled(totalW, scaleX)
        rows == ceilScaled(totalH, scaleY)
        blank == [cell \in (0..(rows - 1)) \X (0..(cols - 1)) |-> " "]
        withA == fillRect(blank, boundsA, minX, minY, scaleX, scaleY, "A")
        withB == fillRect(withA, boundsB, minX, minY, scaleX, scaleY, "B")
    IN  [threw |-> FALSE, cols |-> cols, rows |-> rows,
         grid |-> fillRect(withB, intersection, minX, minY,
                           scaleX, scaleY, "#")]

-----------------------------------------------------------------------------
(* The test program: one call at a time *)

NoCall == [op |-> "none"]

NoOutcome == [threw |-> FALSE]

\* no scene is registered with the engine's scene manager
NoScene == -1

\* before createTestGame is called
\* the keys of the engine's builtin textures
defaultKeys == <<"__DEFAULT", "__MISSING", "__WHITE">>

DefaultKeySet == {defaultKeys[i] : i \in 1..Len(defaultKeys)}

\* the texture manager before the engine has booted
Unbooted == [pending |-> 0, keys |-> {}, listeners |-> {}, log |-> <<>>]

\* the texture manager of a booted engine while pending of its builtin
\* images are still awaited
Loading(pending, keys) ==
    [pending |-> pending, keys |-> keys, listeners |-> {"load", "error"},
     log |-> <<>>]

\* the texture manager once the engine has seen all its builtin images load
\* or fail: it has removed its listeners and emitted ready
Loaded(keys) ==
    [pending |-> 0, keys |-> keys, listeners |-> {},
     log |-> << <<"emit", "ready">> >>]

\* the for loop of forceTextureReady from key i on
RECURSIVE CreateMissing(_, _)
CreateMissing(t, i) ==
    IF i > Len(defaultKeys) THEN t
    ELSE IF defaultKeys[i] \notin t.keys
    THEN CreateMissing(
             [t EXCEPT !.keys = @ \cup {defaultKeys[i]},
                       !.log = Append(@, <<"createCanvas", defaultKeys[i]>>)],
             i + 1)
    ELSE CreateMissing(t, i + 1)

\* variant: a placeholder is created under every key
RECURSIVE CreateAll(_, _)
CreateAll(t, i) ==
    IF i > Len(defaultKeys) THEN t
    ELSE CreateAll(
             [t EXCEPT !.keys = @ \cup {defaultKeys[i]},
                       !.log = Append(@, <<"createCanvas", defaultKeys[i]>>)],
             i + 1)

\* what forceTextureReady does after the placeholders
Complete(t) ==
    [t EXCEPT !.pending = 0,
              !.listeners = (@ \ {"load"}) \ {"error"},
              !.log = @ \o << <<"_pending", 0>>, <<"off", "load">>,
                              <<"off", "error">>, <<"emit", "ready">> >>]

forceTextureReady_createAll(t) ==
    IF t.pending = 0 THEN t ELSE Complete(CreateAll(t, 1))

forceTextureReady(t) ==
    IF t.pending = 0 THEN t ELSE Complete(CreateMissing(t, 1))

\* the texture manager has emitted ready
TexturesReady(t) == \E k \in 1..Len(t.log) : t.log[k] = <<"emit", "ready">>

\* the texture manager as new Phaser.Game can leave it
BootedTextures ==
    {Loading(q[1], q[2]) :
        q \in {q \in (1..Len(defaultKeys)) \X SUBSET DefaultKeySet :
                  Cardinality(q[2]) + q[1] <= Len(defaultKeys)}}
        \cup {Loaded(keys) : keys \in SUBSET DefaultKeySet}

TextureStates == {Unbooted} \cup BootedTextures

\* in jsdom none of the builtin images ever loads
JsdomTextures == {Unbooted, Loading(Len(defaultKeys), {})}

\* no input manager at all
NoInput == [manager |-> FALSE, keyboard |-> FALSE, mouse |-> FALSE]

\* a pointer as the engine constructs it
NewPointer ==
    [position |-> <<0, 0>>, prevPosition |-> <<0, 0>>,
     buttons |-> 0, button |-> 0, primaryDown |-> FALSE, isDown |-> FALSE,
     down |-> <<0, 0>>, up |-> <<0, 0>>]

NoGame ==
    /\ promise = [state |-> "none", value |-> "none"]
    /\ settleCalls = <<>>
    /\ engine = [phase |-> "none"]
    /\ sceneStatus = NoScene
    /\ loopRunning = FALSE
    /\ autoRuns = 0
    /\ timeoutIn = <<>>
    /\ pollIn = <<>>
    /\ updateCount = 0
    /\ pipelineRuns = 0
    /\ requested = 0
    /\ pendingDestroy = FALSE
    /\ textures = Unbooted
    /\ uncaught = <<>>
    /\ input = NoInput
    /\ keyQueue = <<>>
    /\ pointer = NewPointer

Init ==
    /\ pc = "idle"
    /\ call = NoCall
    /\ outcome = NoOutcome
    /\ log = <<>>
    /\ NoGame

Record(c, r, l) ==
    /\ pc' = "done"
    /\ call' = c
    /\ outcome' = r
    /\ log' = l
    /\ UNCHANGED gameVars

CallExpectNoOverlap ==
    /\ pc = "idle"
    /\ \E a \in Operands, b \in Operands :
         Record([op |-> "expectNoOverlap", a |-> a, b |-> b],
                expectNoOverlap(a, b), <<>>)

CallExpectContainedIn ==
    /\ pc = "idle"
    /\ \E a \in Operands, b \in Operands :
         Record([op |-> "expectContainedIn", a |-> a, b |-> b],
                expectContainedIn(a, b), <<>>)

CallExpectAligned ==
    /\ pc = "idle"
    /\ \E a \in Operands, b \in Operands, axis \in Axes, t \in Tolerances :
         Record([op |-> "expectAligned", a |-> a, b |-> b,
                 axis |-> axis, tolerance |-> t],
                expectAligned(a, b, axis, t), <<>>)

CallExpectMinGap ==
    /\ pc = "idle"
    /\ \E a \in Operands, b \in Operands, g \in MinPixels :
         Record([op |-> "expectMinGap", a |-> a, b |-> b, minPixels |-> g],
                expectMinGap(a, b, g), <<>>)

CallExpectAbove ==
    /\ pc = "idle"
    /\ \E a \in Operands, b \in Operands :
         Record([op |-> "expectAbove", a |-> a, b |-> b],
                expectAbove(a, b), <<>>)

CallExpectLeftOf ==
    /\ pc = "idle"
    /\ \E a \in Operands, b \in Operands :
         Record([op |-> "expectLeftOf", a |-> a, b |-> b],
                expectLeftOf(a, b), <<>>)

CallExpectNoOverlaps ==
    /\ pc = "idle"
    /\ \E objects \in SeqsUpTo(ListOperands, MaxLen) :
         LET r == expectNoOverlaps(objects)
         IN  Record([op |-> "expectNoOverlaps", objects |-> objects],
                    r.result, r.log)

CallExpectAllContainedIn ==
    /\ pc = "idle"
    /\ \E children \in SeqsUpTo(ListOperands, MaxChildren),
          parent \in Containers :
         LET r == expectAllContainedIn(children, parent)
         IN  Record([op |-> "expectAllContainedIn", children |-> children,
                     parent |-> parent],
                    r.result, r.log)

CallExpectValidLayout ==
    /\ pc = "idle"
    /\ \E children \in SeqsUpTo(ListOperands, MaxChildren),
          container \in Containers, opts \in LayoutOptions :
         LET r == expectValidLayout(children, container, opts)
         IN  Record([op |-> "expectValidLayout", children |-> children,
                     container |-> container, opts |-> opts],
                    r.result, r.log)

CallToOverlapWith ==
    /\ pc = "idle"
    /\ \E a \in Operands, b \in Operands :
         Record([op |-> "toOverlapWith", a |-> a, b |-> b],
                toOverlapWith(a, b), <<>>)

CallToBeContainedIn ==
    /\ pc = "idle"
    /\ \E a \in Operands, b \in Operands :
         Record([op |-> "toBeContainedIn", a |-> a, b |-> b],
                toBeContainedIn(a, b), <<>>)

CallToBeAbove ==
    /\ pc = "idle"
    /\ \E a \in Operands, b \in Operands :
         Record([op |-> "toBeAbove", a |-> a, b |-> b],
                toBeAbove(a, b), <<>>)

CallToBeLeftOf ==
    /\ pc = "idle"
    /\ \E a \in Operands, b \in Operands :
         Record([op |-> "toBeLeftOf", a |-> a, b |-> b],
                toBeLeftOf(a, b), <<>>)

CallToBeAlignedWith ==
    /\ pc = "idle"
    /\ \E a \in Operands, b \in Operands, axis \in Axes, t \in Tolerances :
         Record([op |-> "toBeAlignedWith", a |-> a, b |-> b,
                 axis |-> axis, tolerance |-> t],
                toBeAlignedWith(a, b, axis, t), <<>>)

\* resolveBounds called on its own: the rectangle it returns, or its error
CallResolveBounds ==
    /\ pc = "idle"
    /\ \E obj \in Operands :
         Record([op |-> "resolveBounds", a |-> obj],
                IF hasBounds(obj)
                THEN [threw |-> FALSE, bounds |-> resolveBounds(obj)]
                ELSE resolveError(obj),
                <<>>)

\* the renderer is called as the assertions call it: on two rectangles that
\* overlap and the rectangle Phaser computes as their intersection
CallFormatOverlapDebug ==
    /\ pc = "idle"
    /\ \E boundsA \in DebugRects, boundsB \in DebugRects :
         /\ Overlaps(boundsA, boundsB)
         /\ Record([op |-> "formatOverlapDebug", a |-> PlainRect(boundsA),
                     b |-> PlainRect(boundsB)],
                    formatOverlapDebug(boundsA, boundsB,
                                       Intersection(boundsA, boundsB)),
                    <<>>)

\* the call is over: the test goes on to its next statement
Return ==
    /\ pc = "done"
    /\ pc' = "idle"
    /\ call' = NoCall
    /\ outcome' = NoOutcome
    /\ log' = <<>>
    /\ UNCHANGED gameVars

Next ==
    \/ CallExpectNoOverlap
    \/ CallExpectNoOverlaps
    \/ CallExpectContainedIn
    \/ CallExpectAllContainedIn
    \/ CallExpectAligned
    \/ CallExpectMinGap
    \/ CallExpectAbove
    \/ CallExpectLeftOf
    \/ CallExpectValidLayout
    \/ CallToOverlapWith
    \/ CallToBeContainedIn
    \/ CallToBeAbove
    \/ CallToBeLeftOf
    \/ CallToBeAlignedWith
    \/ CallFormatOverlapDebug
    \/ CallResolveBounds
    \/ Return

Spec == Init /\ [][Next]_vars

-----------------------------------------------------------------------------
(* The calls of resolveBounds a layout call makes, in order, as positions of
   its operands: 1 and 2 for the two operands of a binary predicate; the
   list position for an element of a list and 0 for the parent or
   container. *)

\* a binary predicate resolves its first operand, then its second
pairCalls(first, i, j) == IF hasBounds(first) THEN <<i, j>> ELSE <<i>>

\* variant: a list predicate keeps the bounds it has resolved, and resolves
\* an operand only where it meets it first
RECURSIVE subCheckCalls_cached(_, _, _)
subCheckCalls_cached(list, ran, k) ==
    IF k > Len(ran) THEN <<>>
    ELSE LET i == ran[k][2]
             j == ran[k][3]
             seen == UNION {{ran[m][2], ran[m][3]} : m \in 1..(k - 1)}
             new == SelectSeq(pairCalls(list[i], i, j), LAMBDA p : p \notin seen)
         IN  new \o subCheckCalls_cached(list, ran, k + 1)

\* the sub-checks of a list predicate from the k-th on: each is a binary
\* predicate on an element of the list and another element or the parent
RECURSIVE subCheckCalls(_, _, _)
subCheckCalls(list, ran, k) ==
    IF k > Len(ran) THEN <<>>
    ELSE LET i == ran[k][2]
             j == ran[k][3]
         IN  pairCalls(list[i], i, j) \o subCheckCalls(list, ran, k + 1)

resolveCalls(c, ran) ==
    CASE c.op \in {"expectNoOverlap", "expectContainedIn", "expectAligned",
                   "expectMinGap", "expectAbove", "expectLeftOf",
                   "toOverlapWith", "toBeContainedIn", "toBeAbove",
                   "toBeLeftOf", "toBeAlignedWith"} -> pairCalls(c.a, 1, 2)
      [] c.op = "resolveBounds" -> <<1>>
      [] c.op = "expectNoOverlaps" -> subCheckCalls(c.objects, ran, 1)
      [] c.op \in {"expectAllContainedIn", "expectValidLayout"} ->
             subCheckCalls(c.children, ran, 1)
      [] OTHER -> <<>>

\* the calls of resolveBounds made by the last layout call
resolved == resolveCalls(call, log)

-----------------------------------------------------------------------------
(* game-factory: the configuration createTestGame hands to Phaser.Game *)

DefaultWidth == 800

DefaultHeight == 600

\* bound of the pool of override bags: how many keys a bag names
MaxOverrides == 2

OverrideKeys == {"type", "width", "height", "audio", "banner", "scene"}

\* the value a bag of the pool gives to a key: each differs from the default
\* and from what the caller passes outside the bag
OverrideValue(key) ==
    CASE key = "type" -> "CANVAS"
      [] key = "width" -> 640
      [] key = "height" -> 480
      [] key = "audio" -> [noAudio |-> FALSE]
      [] key = "banner" -> TRUE
      [] key = "scene" -> "OtherScene"

OverrideBags ==
    {[key \in keys |-> OverrideValue(key)] :
        keys \in {K \in SUBSET OverrideKeys : Cardinality(K) <= MaxOverrides}}

\* TestGameConfig: width, height and gameConfig are optional (<<>> when
\* omitted)
TestGameConfigs ==
    [width : {<<>>, <<1024>>}, height : {<<>>, <<768>>}, scene : {"MyScene"},
     gameConfig : {<<>>} \cup {<<bag>> : bag \in OverrideBags}]

\* the configurations used where the engine then runs
BootConfigs ==
    {[width |-> <<>>, height |-> <<>>, scene |-> "MyScene",
      gameConfig |-> <<>>],
     [width |-> <<1024>>, height |-> <<768>>, scene |-> "MyScene",
      gameConfig |-> <<[banner |-> TRUE]>>]}

\* an object literal: the properties of base, then the properties of over
\* (a later property replaces an earlier one of the same name)
Spread(base, over) ==
    [key \in DOMAIN base \cup DOMAIN over |->
        IF key \in DOMAIN over THEN over[key] ELSE base[key]]

\* variant: the override bag is spread first, the defaults replace it
gameConfigOf_defaultsLast(config) ==
    LET width == IF config.width = <<>> THEN DefaultWidth ELSE config.width[1]
        height ==
            IF config.height = <<>> THEN DefaultHeight ELSE config.height[1]
        gameConfig ==
            IF config.gameConfig = <<>> THEN <<>> ELSE config.gameConfig[1]
    IN  Spread(Spread(gameConfig,
                      [type |-> "HEADLESS", width |-> width,
                       height |-> height, audio |-> [noAudio |-> TRUE],
                       banner |-> FALSE]),
               [scene |-> config.scene])

\* variant: the output mode is set after the override bag
gameConfigOf_typeLast(config) ==
    LET width == IF config.width = <<>> THEN DefaultWidth ELSE config.width[1]
        height ==
            IF config.height = <<>> THEN DefaultHeight ELSE config.height[1]
        gameConfig ==
            IF config.gameConfig = <<>> THEN <<>> ELSE config.gameConfig[1]
    IN  Spread(Spread([width |-> width, height |-> height,
                       audio |-> [noAudio |-> TRUE], banner |-> FALSE],
                      gameConfig),
               [type |-> "HEADLESS", scene |-> config.scene])

\* the argument of new Phaser.Game
gameConfigOf(config) ==
    LET width == IF config.width = <<>> THEN DefaultWidth ELSE config.width[1]
        height ==
            IF config.height = <<>> THEN DefaultHeight ELSE config.height[1]
        gameConfig ==
            IF config.gameConfig = <<>> THEN <<>> ELSE config.gameConfig[1]
    IN  Spread(Spread([type |-> "HEADLESS", width |-> width,
                       height |-> height, audio |-> [noAudio |-> TRUE],
                       banner |-> FALSE],
                      gameConfig),
               [scene |-> config.scene])

-----------------------------------------------------------------------------
(* game-factory: createTestGame, its timeout and its readiness poll.  Time
   passes in milliseconds; a timer that is due fires before more time
   passes.  What the engine does on its own (booting late, moving the scene
   through its lifecycle, running frames of its loop) can happen at any
   moment. *)

TimeoutMs == 5000

PollMs == 1

\* Phaser.Scenes.RUNNING
RUNNING == 5

\* Phaser.Scenes.SHUTDOWN: the scene was stopped, for example a boot scene
\* whose create starts the next scene
SHUTDOWN == 8

\* the lifecycle of the first scene, as far as the model follows it:
\* PENDING (0), LOADING (3), RUNNING and SHUTDOWN
Lifecycle == {0, 3, RUNNING, SHUTDOWN}

\* bounds of the counters
MaxAutoFrames == 1
MaxFrames == 5
MaxRequested == 6

\* what new Phaser.Game and forceTextureReady leave behind: an exception,
\* an engine that has not booted yet, or a started engine whose loop runs
\* and whose first scene has some status
EngineOutcomes ==
    {[phase |-> "failed", status |-> NoScene],
     [phase |-> "constructed", status |-> NoScene]}
        \cup {[phase |-> "started", status |-> status] : status \in Lifecycle}

\* a promise settles once: later calls of resolve or reject change nothing
Settle(state, value) ==
    IF promise.state = "pending"
    THEN [state |-> state, value |-> value]
    ELSE promise

TimeoutError == "createTestGame timed out waiting for scene CREATE event (5s)"

\* createTestGame(config), up to the return of the promise
CreateTestGameWith(configs, texturePool) ==
    /\ promise.state = "none"
    /\ \E config \in configs, made \in EngineOutcomes, given \in texturePool :
         /\ made.phase \in {"failed", "constructed"} => given = Unbooted
         /\ made.phase = "started" => TexturesReady(forceTextureReady(given))
         /\ call' = [op |-> "createTestGame", config |-> config,
                     textures |-> given]
         /\ textures' = IF made.phase = "failed" THEN given
                        ELSE forceTextureReady(given)
         /\ timeoutIn' = <<TimeoutMs>>
         /\ engine' = [phase |-> made.phase, config |-> gameConfigOf(config)]
         /\ sceneStatus' = made.status
         /\ loopRunning' = (made.phase = "started")
         /\ IF made.phase = "failed"
            THEN /\ promise' = [state |-> "rejected", value |-> "engine error"]
                 /\ settleCalls' = <<"reject">>
                 /\ pollIn' = <<>>
            ELSE /\ promise' = [state |-> "pending", value |-> "none"]
                 /\ settleCalls' = <<>>
                 /\ pollIn' = <<PollMs>>
    /\ UNCHANGED <<autoRuns, updateCount, pipelineRuns, requested>>
    /\ UNCHANGED <<pc, outcome, log>>
    /\ UNCHANGED <<pendingDestroy, uncaught, inputVars>>

CallCreateTestGame == CreateTestGameWith(BootConfigs, JsdomTextures)

\* one millisecond passes
Tick ==
    /\ timeoutIn # <<0>> /\ pollIn # <<0>>
    /\ timeoutIn # <<>> \/ pollIn # <<>>
    /\ timeoutIn' = IF timeoutIn = <<>> THEN <<>> ELSE <<timeoutIn[1] - 1>>
    /\ pollIn' = IF pollIn = <<>> THEN <<>> ELSE <<pollIn[1] - 1>>
    /\ UNCHANGED <<promise, settleCalls, engine, sceneStatus, loopRunning,
                   autoRuns, updateCount, pipelineRuns, requested>>
    /\ UNCHANGED <<pc, call, outcome, log>>
    /\ UNCHANGED <<pendingDestroy, textures, uncaught, inputVars>>

\* the 5 s timer fires
Timeout ==
    /\ timeoutIn = <<0>>
    /\ timeoutIn' = <<>>
    /\ promise' = Settle("rejected", TimeoutError)
    /\ settleCalls' = Append(settleCalls, "reject")
    /\ UNCHANGED <<engine, sceneStatus, loopRunning, autoRuns, pollIn,
                   updateCount, pipelineRuns, requested>>
    /\ UNCHANGED <<pc, call, outcome, log>>
    /\ UNCHANGED <<pendingDestroy, textures, uncaught, inputVars>>

\* variant: the readiness poll resolves without stopping the loop
checkReady_noStop ==
    IF sceneStatus # NoScene /\ sceneStatus >= RUNNING
    THEN /\ timeoutIn' = <<>>
         /\ promise' = Settle("resolved", "handle")
         /\ settleCalls' = Append(settleCalls, "resolve")
         /\ pollIn' = <<>>
         /\ UNCHANGED loopRunning
    ELSE /\ pollIn' = <<PollMs>>
         /\ UNCHANGED <<loopRunning, timeoutIn, promise, settleCalls>>

\* variant: the readiness poll resolves and leaves the timeout armed
checkReady_keepTimeout ==
    IF sceneStatus # NoScene /\ sceneStatus >= RUNNING
    THEN /\ loopRunning' = FALSE
         /\ promise' = Settle("resolved", "handle")
         /\ settleCalls' = Append(settleCalls, "resolve")
         /\ pollIn' = <<>>
         /\ UNCHANGED timeoutIn
    ELSE /\ pollIn' = <<PollMs>>
         /\ UNCHANGED <<loopRunning, timeoutIn, promise, settleCalls>>

\* variant: the readiness poll resolves as soon as the scene is loading
checkReady_loading ==
    IF sceneStatus # NoScene /\ sceneStatus >= 3
    THEN /\ loopRunning' = FALSE
         /\ timeoutIn' = <<>>
         /\ promise' = Settle("resolved", "handle")
         /\ settleCalls' = Append(settleCalls, "resolve")
         /\ pollIn' = <<>>
    ELSE /\ pollIn' = <<PollMs>>
         /\ UNCHANGED <<loopRunning, timeoutIn, promise, settleCalls>>

checkReady ==
    IF sceneStatus # NoScene /\ sceneStatus >= RUNNING
    THEN /\ loopRunning' = FALSE
         /\ timeoutIn' = <<>>
         /\ promise' = Settle("resolved", "handle")
         /\ settleCalls' = Append(settleCalls, "resolve")
         /\ pollIn' = <<>>
    ELSE /\ pollIn' = <<PollMs>>
         /\ UNCHANGED <<loopRunning, timeoutIn, promise, settleCalls>>

\* the poll timer fires
Poll ==
    /\ pollIn = <<0>>
    /\ checkReady
    /\ UNCHANGED <<engine, sceneStatus, autoRuns, updateCount, pipelineRuns,
                   requested>>
    /\ UNCHANGED <<pc, call, outcome, log>>
    /\ UNCHANGED <<pendingDestroy, textures, uncaught, inputVars>>

\* the engine boots after createTestGame has returned: the scene manager
\* registers the scene and the loop starts
EngineBoot ==
    /\ engine.phase = "constructed"
    /\ engine' = [engine EXCEPT !.phase = "started"]
    /\ sceneStatus' \in Lifecycle
    /\ loopRunning' = TRUE
    /\ UNCHANGED <<promise, settleCalls, autoRuns, timeoutIn, pollIn,
                   updateCount, pipelineRuns, requested>>
    /\ UNCHANGED <<pc, call, outcome, log>>
    /\ textures' = [Loaded(DefaultKeySet) EXCEPT !.log = textures.log \o @]
    /\ UNCHANGED <<pendingDestroy, uncaught, inputVars>>

\* the scene moves on in its lifecycle (its assets are loaded, its create
\* has run)
SceneAdvance ==
    /\ engine.phase = "started"
    /\ sceneStatus' \in {status \in Lifecycle : status > sceneStatus}
    /\ UNCHANGED <<promise, settleCalls, engine, loopRunning, autoRuns,
                   timeoutIn, pollIn, updateCount, pipelineRuns, requested>>
    /\ UNCHANGED <<pc, call, outcome, log>>
    /\ UNCHANGED <<pendingDestroy, textures, uncaught, inputVars>>

\* what one run of the frame pipeline does to the scene's update callback
updatesOf(frames) == IF sceneStatus = RUNNING THEN frames ELSE 0

\* the engine's own loop runs a frame
Frame ==
    /\ loopRunning
    /\ autoRuns < MaxAutoFrames
    /\ autoRuns' = autoRuns + 1
    /\ pipelineRuns' = pipelineRuns + 1
    /\ updateCount' = updateCount + updatesOf(1)
    /\ UNCHANGED <<promise, settleCalls, engine, sceneStatus, loopRunning,
                   timeoutIn, pollIn, requested>>
    /\ UNCHANGED <<pc, call, outcome, log>>
    /\ UNCHANGED <<pendingDestroy, textures, uncaught, inputVars>>

-----------------------------------------------------------------------------
(* step: frames of the stopped engine.  Times are in sixtieths of a
   millisecond, so that the default delta of 1000 / 60 ms is exact. *)

\* 1000 / 60 ms
DEFAULT_DELTA_MS == 1000

\* an integer number of milliseconds
Ms(n) == 60 * n

StepFrames == {<<>>} \cup {<<n>> : n \in 0..MaxFrames}

StepDeltas == {<<>>, <<Ms(10)>>, <<Ms(33)>>}

\* game.loop.now: the time of the last frame the engine's loop ran, one
\* frame interval after the frame before it; 0 when it ran none
loopNow == autoRuns * DEFAULT_DELTA_MS

\* the loop of step from frame i on: the <<time, delta>> of every call of
\* game.headlessStep
RECURSIVE StepLoop(_, _, _, _, _)
StepLoop(time, i, frames, deltaMs, ran) ==
    IF i < frames
    THEN StepLoop(time + deltaMs, i + 1, frames, deltaMs,
                  Append(ran, <<time + deltaMs, deltaMs>>))
    ELSE ran

\* variant: the frame is run before the clock is advanced
step_lateClock(frames, deltaMs) ==
    LET n == IF frames = <<>> THEN 1 ELSE frames[1]
        d == IF deltaMs = <<>> THEN DEFAULT_DELTA_MS ELSE deltaMs[1]
        time == IF loopNow # 0 THEN loopNow ELSE 0
    IN  StepLoop(time - d, 0, n, d, <<>>)

step(frames, deltaMs) ==
    LET n == IF frames = <<>> THEN 1 ELSE frames[1]
        d == IF deltaMs = <<>> THEN DEFAULT_DELTA_MS ELSE deltaMs[1]
        time == IF loopNow # 0 THEN loopNow ELSE 0
    IN  StepLoop(time, 0, n, d, <<>>)

\* the test calls step on the game of the handle, which it has not torn
\* down; every frame ends with the keyboard manager emptying its queue
StepWith(framesPool, deltasPool) ==
    /\ promise.state = "resolved"
    /\ engine.phase = "started" /\ ~pendingDestroy
    /\ \E frames \in framesPool, deltaMs \in deltasPool :
         LET ran == step(frames, deltaMs)
         IN  /\ requested + Len(ran) <= MaxRequested
             /\ call' = [op |-> "step", frames |-> frames,
                         deltaMs |-> deltaMs]
             /\ log' = ran
             /\ pipelineRuns' = pipelineRuns + Len(ran)
             /\ updateCount' = updateCount + updatesOf(Len(ran))
             /\ requested' =
                    requested + (IF frames = <<>> THEN 1 ELSE frames[1])
             /\ keyQueue' = IF Len(ran) > 0 THEN <<>> ELSE keyQueue
    /\ outcome' = Returned
    /\ UNCHANGED <<promise, settleCalls, engine, sceneStatus, loopRunning,
                   autoRuns, timeoutIn, pollIn>>
    /\ UNCHANGED pc
    /\ UNCHANGED <<pendingDestroy, textures, uncaught, input, pointer>>

CallStep == StepWith(StepFrames, StepDeltas)

BootNext ==
    \/ CallCreateTestGame
    \/ Tick
    \/ Timeout
    \/ Poll
    \/ EngineBoot
    \/ SceneAdvance
    \/ Frame
    \/ CallStep

BootSpec == Init /\ [][BootNext]_vars

-----------------------------------------------------------------------------
(* Teardown.  The handle's destroy is game.destroy(true), which flags the
   game; the engine destroys itself (scenes, listeners, canvas, loop) at the
   start of the next frame it is asked to run, in place of that frame. *)

\* the test calls handle.destroy()
CallDestroy ==
    /\ promise.state = "resolved"
    /\ engine.phase = "started"
    /\ call' = [op |-> "destroy"]
    /\ pendingDestroy' = TRUE
    /\ UNCHANGED <<promise, settleCalls, engine, sceneStatus, loopRunning,
                   autoRuns, timeoutIn, pollIn, updateCount, pipelineRuns,
                   requested>>
    /\ UNCHANGED <<pc, outcome, log>>
    /\ UNCHANGED <<textures, uncaught, inputVars>>

\* the test calls step(game) on the game it has torn down: the one frame it
\* asks for destroys the engine and runs no pipeline
CallStepFlagged ==
    /\ promise.state = "resolved"
    /\ engine.phase = "started" /\ pendingDestroy
    /\ requested < MaxRequested
    /\ call' = [op |-> "step", frames |-> <<>>, deltaMs |-> <<>>]
    /\ log' = step(<<>>, <<>>)
    /\ engine' = [engine EXCEPT !.phase = "destroyed"]
    /\ pendingDestroy' = FALSE
    /\ requested' = requested + 1
    /\ UNCHANGED <<promise, settleCalls, sceneStatus, loopRunning, autoRuns,
                   timeoutIn, pollIn, updateCount, pipelineRuns>>
    /\ UNCHANGED <<pc, outcome>>
    /\ UNCHANGED <<textures, uncaught, inputVars>>

TeardownNext ==
    \/ BootNext
    \/ CallDestroy
    \/ CallStepFlagged

TeardownSpec == Init /\ [][TeardownNext]_vars

-----------------------------------------------------------------------------
(* Simulated input.  The test holds a game that createTestGame resolved with;
   the engine was configured with or without keyboard and mouse input. *)

MaxQueue == 3
MaxPointer == 1

\* SPACE and A
KeyCodes == {32, 65}

InputManagers ==
    {NoInput,
     [manager |-> TRUE, keyboard |-> FALSE, mouse |-> FALSE],
     [manager |-> TRUE, keyboard |-> TRUE, mouse |-> FALSE],
     [manager |-> TRUE, keyboard |-> FALSE, mouse |-> TRUE],
     [manager |-> TRUE, keyboard |-> TRUE, mouse |-> TRUE]}

\* the state after "const handle = await createTestGame(...)"
InputInit ==
    /\ pc = "idle"
    /\ call = NoCall
    /\ outcome = NoOutcome
    /\ log = <<>>
    /\ promise = [state |-> "resolved", value |-> "handle"]
    /\ settleCalls = <<"resolve">>
    /\ engine = [phase |-> "started",
                 config |-> gameConfigOf([width |-> <<>>, height |-> <<>>,
                                          scene |-> "MyScene",
                                          gameConfig |-> <<>>])]
    /\ sceneStatus = RUNNING
    /\ loopRunning = FALSE
    /\ autoRuns = 0
    /\ timeoutIn = <<>>
    /\ pollIn = <<>>
    /\ updateCount = 0
    /\ pipelineRuns = 0
    /\ requested = 0
    /\ pendingDestroy = FALSE
    /\ textures = forceTextureReady(Loading(Len(defaultKeys), {}))
    /\ uncaught = <<>>
    /\ input \in InputManagers
    /\ keyQueue = <<>>
    /\ pointer = NewPointer

\* the fields of the synthetic keyboard event the engine reads
createSyntheticKeyboardEvent(type, keyCode) ==
    [type |-> type, keyCode |-> keyCode]

\* the keyboard manager's queue after simulateKeyDown(game, keyCode)
simulateKeyDown(queue, keyCode) ==
    IF ~input.manager THEN queue
    ELSE IF ~input.keyboard THEN queue
    ELSE Append(queue, createSyntheticKeyboardEvent("keydown", keyCode))

simulateKeyUp(queue, keyCode) ==
    IF ~input.manager THEN queue
    ELSE IF ~input.keyboard THEN queue
    ELSE Append(queue, createSyntheticKeyboardEvent("keyup", keyCode))

\* variant: the key is released before it is pressed
simulateKeyPress_upFirst(queue, keyCode) ==
    simulateKeyDown(simulateKeyUp(queue, keyCode), keyCode)

simulateKeyPress(queue, keyCode) ==
    simulateKeyUp(simulateKeyDown(queue, keyCode), keyCode)

\* a call of a keyboard function: it returns normally
KeyCall(op, keyCode, queue) ==
    /\ Len(queue) <= MaxQueue
    /\ call' = [op |-> op, keyCode |-> keyCode]
    /\ outcome' = Returned
    /\ keyQueue' = queue
    /\ UNCHANGED <<pc, log, input, pointer>>
    /\ UNCHANGED <<promise, settleCalls, engine, sceneStatus, loopRunning,
                   autoRuns, timeoutIn, pollIn, updateCount, pipelineRuns,
                   requested, pendingDestroy, textures, uncaught>>

CallSimulateKeyDown ==
    \E keyCode \in KeyCodes :
        KeyCall("simulateKeyDown", keyCode, simulateKeyDown(keyQueue, keyCode))

CallSimulateKeyUp ==
    \E keyCode \in KeyCodes :
        KeyCall("simulateKeyUp", keyCode, simulateKeyUp(keyQueue, keyCode))

CallSimulateKeyPress ==
    \E keyCode \in KeyCodes :
        KeyCall("simulateKeyPress", keyCode,
                simulateKeyPress(keyQueue, keyCode))

\* step(game)
CallStepOnce == StepWith({<<>>}, {<<>>})

KeyboardNext ==
    \/ CallSimulateKeyDown
    \/ CallSimulateKeyUp
    \/ CallSimulateKeyPress
    \/ CallStepOnce

KeyboardSpec == InputInit /\ [][KeyboardNext]_vars

-----------------------------------------------------------------------------
(* Exceptions of the engine after it was constructed: inside a readiness
   poll and inside a stepped frame. *)

EngineError == Thrown("engine error", 0)

\* the poll timer fires and the engine raises inside checkReady (reading the
\* scenes or stopping the loop): the exception leaves the timer callback,
\* and the statements after it, the next setTimeout among them, do not run
PollThrows ==
    /\ pollIn = <<0>>
    /\ pollIn' = <<>>
    /\ uncaught' = Append(uncaught, "engine error")
    /\ UNCHANGED <<promise, settleCalls, engine, sceneStatus, loopRunning,
                   autoRuns, timeoutIn, updateCount, pipelineRuns, requested>>
    /\ UNCHANGED <<pc, call, outcome, log>>
    /\ UNCHANGED <<pendingDestroy, textures, inputVars>>

\* step is called and the engine raises in one of the frames: the frames
\* before it have run, the scene's update of the failing frame may have run,
\* and the exception leaves step
CallStepThrows ==
    /\ promise.state = "resolved"
    /\ engine.phase = "started" /\ ~pendingDestroy
    /\ \E frames \in StepFrames, deltaMs \in StepDeltas :
         LET asked == step(frames, deltaMs)
         IN  /\ requested + Len(asked) <= MaxRequested
             /\ \E failing \in 1..Len(asked), updated \in BOOLEAN :
                  /\ call' = [op |-> "step", frames |-> frames,
                              deltaMs |-> deltaMs]
                  /\ log' = SubSeq(asked, 1, failing)
                  /\ pipelineRuns' = pipelineRuns + (failing - 1)
                  /\ updateCount' =
                         updateCount
                             + updatesOf(IF updated THEN failing
                                         ELSE failing - 1)
                  /\ requested' = requested + Len(asked)
                  /\ keyQueue' = IF failing > 1 THEN <<>> ELSE keyQueue
    /\ outcome' = EngineError
    /\ UNCHANGED <<promise, settleCalls, engine, sceneStatus, loopRunning,
                   autoRuns, timeoutIn, pollIn>>
    /\ UNCHANGED pc
    /\ UNCHANGED <<pendingDestroy, textures, uncaught, input, pointer>>

FaultNext ==
    \/ BootNext
    \/ PollThrows
    \/ CallStepThrows

FaultSpec == Init /\ [][FaultNext]_vars

-----------------------------------------------------------------------------
(* simulate/pointer: synthetic mouse events fed to the mouse pointer.  The
   time stamps of the events are left out. *)

MOUSE_DOWN == 0
MOUSE_MOVE == 1
MOUSE_UP == 2

\* 0 = left, 1 = middle, 2 = right; <<>> when the argument is omitted
ButtonArgs == {<<>>} \cup {<<button>> : button \in 0..2}

PointerCoords == 0..MaxPointer

\* the targets of simulateClick: rectangles with an integer centre, and a
\* value without bounds
ClickTargets ==
    {PlainRect(Rect(x, 0, 2, 2)) : x \in PointerCoords} \cup {NotBounded}

\* the fields of the synthetic mouse event that feedPointerEvent reads
createSyntheticMouseEvent(type, x, y, button) ==
    [type |-> type, button |-> button,
     buttons |-> IF type = "mouseup" THEN 0 ELSE 1]

\* the mouse pointer after feedPointerEvent(game, type, x, y, eventType,
\* button)
feedPointerEvent(p, type, x, y, eventType, button) ==
    IF ~input.manager \/ ~input.mouse THEN p
    ELSE LET event == createSyntheticMouseEvent(eventType, x, y, button)
             moved == [p EXCEPT !.prevPosition = p.position,
                                !.position = <<x, y>>,
                                !.buttons = event.buttons]
         IN  CASE type = MOUSE_DOWN ->
                    [moved EXCEPT
                        !.button = event.button,
                        !.primaryDown = IF event.button = 0 THEN TRUE ELSE @,
                        !.down = IF event.button = 0 THEN <<x, y>> ELSE @,
                        !.isDown = TRUE]
               [] type = MOUSE_MOVE -> moved
               [] type = MOUSE_UP ->
                    [moved EXCEPT
                        !.button = event.button,
                        !.primaryDown = IF event.button = 0 THEN FALSE ELSE @,
                        !.up = IF event.button = 0 THEN <<x, y>> ELSE @,
                        !.isDown = IF moved.buttons = 0 THEN FALSE ELSE @]

buttonOrDefault(button) == IF button = <<>> THEN 0 ELSE button[1]

simulatePointerDown(p, x, y, button) ==
    feedPointerEvent(p, MOUSE_DOWN, x, y, "mousedown", buttonOrDefault(button))

simulatePointerUp(p, x, y, button) ==
    feedPointerEvent(p, MOUSE_UP, x, y, "mouseup", buttonOrDefault(button))

simulatePointerMove(p, x, y) ==
    feedPointerEvent(p, MOUSE_MOVE, x, y, "mousemove", 0)

\* a press and a release at the centre of the target's bounds
simulateClick(p, target) ==
    LET bounds == resolveBounds(target)
        cx == centerX2(bounds) \div 2
        cy == centerY2(bounds) \div 2
    IN  simulatePointerUp(simulatePointerDown(p, cx, cy, <<>>), cx, cy, <<>>)

\* a call of a pointer function
PointerCall(c, result, p) ==
    /\ call' = c
    /\ outcome' = result
    /\ pointer' = p
    /\ UNCHANGED <<pc, log, input, keyQueue>>
    /\ UNCHANGED <<promise, settleCalls, engine, sceneStatus, loopRunning,
                   autoRuns, timeoutIn, pollIn, updateCount, pipelineRuns,
                   requested, pendingDestroy, textures, uncaught>>

CallSimulatePointerDown ==
    \E x \in PointerCoords, y \in PointerCoords, button \in ButtonArgs :
        PointerCall([op |-> "simulatePointerDown", x |-> x, y |-> y,
                     button |-> button],
                    Returned, simulatePointerDown(pointer, x, y, button))

CallSimulatePointerUp ==
    \E x \in PointerCoords, y \in PointerCoords, button \in ButtonArgs :
        PointerCall([op |-> "simulatePointerUp", x |-> x, y |-> y,
                     button |-> button],
                    Returned, simulatePointerUp(pointer, x, y, button))

CallSimulatePointerMove ==
    \E x \in PointerCoords, y \in PointerCoords :
        PointerCall([op |-> "simulatePointerMove", x |-> x, y |-> y],
                    Returned, simulatePointerMove(pointer, x, y))

CallSimulateClick ==
    \E target \in ClickTargets :
        IF hasBounds(target)
        THEN PointerCall([op |-> "simulateClick", target |-> target],
                         Returned, simulateClick(pointer, target))
        ELSE PointerCall([op |-> "simulateClick", target |-> target],
                         resolveError(target), pointer)

PointerNext ==
    \/ CallSimulatePointerDown
    \/ CallSimulatePointerUp
    \/ CallSimulatePointerMove
    \/ CallSimulateClick

PointerSpec == InputInit /\ [][PointerNext]_vars

\* createTestGame on every configuration of the pool
CallCreateTestGameAnyConfig ==
    CreateTestGameWith(TestGameConfigs, TextureStates)

ConfigNext == CallCreateTestGameAnyConfig

ConfigSpec == Init /\ [][ConfigNext]_vars

-----------------------------------------------------------------------------
(* Properties of the layout assertions *)

\* the last call was op and has finished
Done(op) == pc = "done" /\ call.op = op

\* both operands of the last (binary) call are rectangles or game objects
BothBounded == hasBounds(call.a) /\ hasBounds(call.b)

BoundsA == call.a.bounds

BoundsB == call.b.bounds

Passed == ~outcome.threw

Failed(error) == outcome.threw /\ outcome.error = error

Min(m, n) == IF m <= n THEN m ELSE n

\* the intersection of A and B has positive area
PositiveArea(A, B) ==
    /\ Max(A.x, B.x) < Min(A.x + A.width, B.x + B.width)
    /\ Max(A.y, B.y) < Min(A.y + A.height, B.y + B.height)

\* A and B lie apart or share at most an edge
Separated(A, B) ==
    \/ A.x + A.width <= B.x
    \/ B.x + B.width <= A.x
    \/ A.y + A.height <= B.y
    \/ B.y + B.height <= A.y

\* C1: expectNoOverlap(A, B) returns normally iff A.right <= B.x or
\* B.right <= A.x or A.bottom <= B.y or B.bottom <= A.y, degenerate
\* rectangles included; otherwise it raises "expectNoOverlap failed", which it
\* does for every intersection of positive area.
C1_NoOverlapIffSeparated ==
    (Done("expectNoOverlap") /\ BothBounded) =>
        /\ Passed <=> Separated(BoundsA, BoundsB)
        /\ ~Passed => Failed("expectNoOverlap failed")
        /\ PositiveArea(BoundsA, BoundsB) => Failed("expectNoOverlap failed")

\* two rectangles of positive size that share exactly one vertical edge pass
C1_Witness ==
    /\ Done("expectNoOverlap") /\ BothBounded
    /\ BoundsA.width > 0 /\ BoundsA.height > 0
    /\ BoundsB.width > 0 /\ BoundsB.height > 0
    /\ BoundsA.x + BoundsA.width = BoundsB.x
    /\ BoundsA.y = BoundsB.y
    /\ Passed

\* C2: expectContainedIn(child, parent) returns normally iff child.x >=
\* parent.x, child.y >= parent.y, child.right <= parent.right and
\* child.bottom <= parent.bottom; every rectangle is contained in itself.
C2_ContainedInInclusive ==
    (Done("expectContainedIn") /\ BothBounded) =>
        /\ Passed <=>
             /\ BoundsA.x >= BoundsB.x
             /\ BoundsA.y >= BoundsB.y
             /\ BoundsA.x + BoundsA.width <= BoundsB.x + BoundsB.width
             /\ BoundsA.y + BoundsA.height <= BoundsB.y + BoundsB.height
        /\ ~Passed => Failed("expectContainedIn failed")
        /\ BoundsA = BoundsB => Passed

\* a zero-area rectangle checked against itself passes
C2_Witness ==
    /\ Done("expectContainedIn") /\ BothBounded
    /\ BoundsA = BoundsB
    /\ BoundsA.width = 0 /\ BoundsA.height = 0
    /\ Passed

\* the gap as the claims state it
GapOf(A, B) ==
    Max(Max(B.x - (A.x + A.width), A.x - (B.x + B.width)),
        Max(B.y - (A.y + A.height), A.y - (B.y + B.height)))

HorizontalSeparation(A, B) == Max(B.x - (A.x + A.width), A.x - (B.x + B.width))

VerticalSeparation(A, B) == Max(B.y - (A.y + A.height), A.y - (B.y + B.height))

\* C4: for rectangles separated by h > 0 horizontally and v > 0 vertically,
\* expectMinGap(a, b, g) passes iff min(h, v) >= g (the gap is the shortest
\* axis-aligned distance between the edges).
C4_MinGapIsShortestDistance ==
    (Done("expectMinGap") /\ BothBounded) =>
        LET h == HorizontalSeparation(BoundsA, BoundsB)
            v == VerticalSeparation(BoundsA, BoundsB)
        IN  (h > 0 /\ v > 0) => (Passed <=> Min(h, v) >= call.minPixels)

\* the projection selected by axis, in half-pixel units
Projection2(r, axis) ==
    CASE axis = "centerX" -> 2 * r.x + r.width
      [] axis = "centerY" -> 2 * r.y + r.height
      [] axis = "top" -> 2 * r.y
      [] axis = "bottom" -> 2 * (r.y + r.height)
      [] axis = "left" -> 2 * r.x
      [] axis = "right" -> 2 * (r.x + r.width)

\* C5: expectAligned(a, b, axis, tolerance) returns normally iff
\* |v(a) - v(b)| <= tolerance for the projection v the axis selects; the
\* tolerance is 1 when omitted; with tolerance 0 it passes iff the values are
\* equal.
C5_AlignedWithinTolerance ==
    (Done("expectAligned") /\ BothBounded) =>
        LET diff2 == Abs(Projection2(BoundsA, call.axis)
                         - Projection2(BoundsB, call.axis))
            tol == IF call.tolerance = <<>> THEN 1 ELSE call.tolerance[1]
        IN  /\ Passed <=> diff2 <= 2 * tol
            /\ ~Passed => Failed("expectAligned")
            /\ tol = 0 =>
                 (Passed <=> Projection2(BoundsA, call.axis)
                             = Projection2(BoundsB, call.axis))

\* the tolerance is omitted and the centres differ by exactly one pixel
C5_Witness ==
    /\ Done("expectAligned") /\ BothBounded
    /\ call.tolerance = <<>>
    /\ call.axis = "centerX"
    /\ Abs(Projection2(BoundsA, "centerX") - Projection2(BoundsB, "centerX")) = 2
    /\ Passed

\* C6: expectAbove(upper, lower) returns normally iff upper.bottom <= lower.y
\* and expectLeftOf(left, right) iff left.right <= right.x; on failure the
\* reported magnitude is upper.bottom - lower.y (left.right - right.x) and is
\* strictly positive.
C6_OrderingAllowsEdgeTouch ==
    /\ (Done("expectAbove") /\ BothBounded) =>
         LET over == (BoundsA.y + BoundsA.height) - BoundsB.y
         IN  /\ Passed <=> over <= 0
             /\ ~Passed => /\ Failed("expectAbove failed")
                           /\ outcome.magnitude = over
                           /\ outcome.magnitude > 0
    /\ (Done("expectLeftOf") /\ BothBounded) =>
         LET over == (BoundsA.x + BoundsA.width) - BoundsB.x
         IN  /\ Passed <=> over <= 0
             /\ ~Passed => /\ Failed("expectLeftOf failed")
                           /\ outcome.magnitude = over
                           /\ outcome.magnitude > 0

\* the upper rectangle's bottom edge lies exactly on the lower one's top edge
C6_Witness ==
    /\ Done("expectAbove") /\ BothBounded
    /\ BoundsA.height > 0 /\ BoundsB.height > 0
    /\ BoundsA.y + BoundsA.height = BoundsB.y
    /\ Passed

\* B is A shifted along X by exactly A.width, with no Y shift
ShiftedByWidth(A, B) == B = Rect(A.x + A.width, A.y, A.width, A.height)

\* C7 as stated: for B = A shifted along X by A.width, expectLeftOf(A, B),
\* expectAbove(A, B) and expectNoOverlap(A, B) all pass.
C7_ShiftedPassesAllThree ==
    ( /\ pc = "done"
      /\ call.op \in {"expectLeftOf", "expectAbove", "expectNoOverlap"}
      /\ BothBounded
      /\ ShiftedByWidth(BoundsA, BoundsB) ) => Passed

\* C7 (amended): for B = A shifted along X by A.width, expectLeftOf(A, B) and
\* expectNoOverlap(A, B) pass, and expectAbove(A, B) passes iff A.height = 0
\* (it fails for every A of positive height).
C7_ShiftedLeftOfAndNoOverlap ==
    ( /\ pc = "done"
      /\ call.op \in {"expectLeftOf", "expectAbove", "expectNoOverlap"}
      /\ BothBounded
      /\ ShiftedByWidth(BoundsA, BoundsB) ) =>
        /\ call.op \in {"expectLeftOf", "expectNoOverlap"} => Passed
        /\ call.op = "expectAbove" => (Passed <=> BoundsA.height = 0)

\* expectAbove on a rectangle of positive size and its shifted copy fails
C7_Witness ==
    /\ Done("expectAbove") /\ BothBounded
    /\ ShiftedByWidth(BoundsA, BoundsB)
    /\ BoundsA.width > 0 /\ BoundsA.height > 0
    /\ Failed("expectAbove failed")

\* the position pairs i < j of a list of n elements
PositionPairs(n) == {q \in (1..n) \X (1..n) : q[1] < q[2]}

\* the permutations of the positions 1..n, for every list length in use
PermutationsByLength ==
    [n \in 0..MaxLen |->
        {f \in [1..n -> 1..n] : \A i, j \in 1..n : f[i] = f[j] => i = j}]

PositionPermutations(n) == PermutationsByLength[n]

Permuted(objects, f) == [k \in 1..Len(objects) |-> objects[f[k]]]

\* the pairs expectNoOverlap was applied to, as the call logged them
LoggedPairs == {<<log[k][2], log[k][3]>> : k \in 1..Len(log)}

\* C8: expectNoOverlaps(list) passes iff expectNoOverlap passes on every one
\* of the C(n,2) pairs of distinct positions, all of which it has then
\* checked; every permutation of the list has the same pass/fail outcome;
\* lists of length 0 or 1 always pass.
C8_NoOverlapsAllPairs ==
    Done("expectNoOverlaps") =>
        LET n == Len(call.objects)
        IN  /\ Passed <=> \A q \in PositionPairs(n) :
                 ~expectNoOverlap(call.objects[q[1]], call.objects[q[2]]).threw
            /\ Passed => /\ LoggedPairs = PositionPairs(n)
                         /\ 2 * Len(log) = n * (n - 1)
            /\ \A f \in PositionPermutations(n) :
                 expectNoOverlaps(Permuted(call.objects, f)).result.threw
                     = outcome.threw
            /\ n <= 1 => Passed

\* three rectangles of which only the last two overlap: the failure is found
\* on the third and last pair
C8_Witness ==
    /\ Done("expectNoOverlaps")
    /\ Len(call.objects) = 3
    /\ \A k \in 1..3 : call.objects[k].kind = "rect"
    /\ Failed("expectNoOverlap failed")
    /\ log = << <<"expectNoOverlap", 1, 2>>, <<"expectNoOverlap", 1, 3>>,
                <<"expectNoOverlap", 2, 3>> >>

\* an option of the last expectValidLayout call, true unless given as false
OptionGiven(name) ==
    IF call.opts = <<>> THEN TRUE
    ELSE call.opts[1][name] # <<FALSE>>

AllChildrenBounded ==
    /\ hasBounds(call.container)
    /\ \A k \in 1..Len(call.children) : hasBounds(call.children[k])

SomeChildOverflows ==
    \E k \in 1..Len(call.children) :
        LET c == call.children[k].bounds
            p == call.container.bounds
        IN  ~( /\ c.x >= p.x
               /\ c.y >= p.y
               /\ c.x + c.width <= p.x + p.width
               /\ c.y + c.height <= p.y + p.height )

SomeChildrenOverlap ==
    \E q \in PositionPairs(Len(call.children)) :
        ~Separated(call.children[q[1]].bounds, call.children[q[2]].bounds)

\* C9: expectValidLayout runs the containment check (containChildren, default
\* true) strictly before the overlap check (noOverlaps, default true): when a
\* child overflows and two children overlap the error is the containment
\* failure; with noOverlaps false overlapping children never fail, and with
\* containChildren false an overflowing child never fails.
C9_ValidLayoutContainmentFirst ==
    (Done("expectValidLayout") /\ AllChildrenBounded) =>
        LET containChildren == OptionGiven("containChildren")
            noOverlaps == OptionGiven("noOverlaps")
        IN  /\ (containChildren /\ SomeChildOverflows) =>
                 Failed("expectContainedIn failed")
            /\ \A k \in 1..Len(log) : \A m \in 1..Len(log) :
                 (log[k][1] = "expectContainedIn" /\ log[m][1] = "expectNoOverlap")
                     => k < m
            /\ ~noOverlaps => (~Passed <=> (containChildren /\ SomeChildOverflows))
            /\ ~containChildren => (~Passed <=> (noOverlaps /\ SomeChildrenOverlap))
            /\ Passed <=> /\ containChildren => ~SomeChildOverflows
                          /\ noOverlaps => ~SomeChildrenOverlap

\* default options, a child overflows and two children overlap: the
\* containment failure is the one raised
C9_Witness ==
    /\ Done("expectValidLayout") /\ AllChildrenBounded
    /\ call.opts = <<>>
    /\ SomeChildOverflows
    /\ SomeChildrenOverlap
    /\ Failed("expectContainedIn failed")

\* a matcher returned pass = true
MatcherPassed == ~outcome.threw /\ outcome.pass

\* C10: on the same operands (and axis and tolerance) toBeContainedIn,
\* toBeAbove, toBeLeftOf and toBeAlignedWith return pass = true iff
\* expectContainedIn, expectAbove, expectLeftOf and expectAligned return
\* normally, and toOverlapWith returns pass = true iff expectNoOverlap
\* raises its failure; a value without bounds makes both APIs raise the same
\* error.
C10_MatchersAgreeWithFunctions ==
    /\ Done("toBeContainedIn") =>
         /\ MatcherPassed <=> ~expectContainedIn(call.a, call.b).threw
         /\ outcome.threw => outcome = expectContainedIn(call.a, call.b)
    /\ Done("toBeAbove") =>
         /\ MatcherPassed <=> ~expectAbove(call.a, call.b).threw
         /\ outcome.threw => outcome = expectAbove(call.a, call.b)
    /\ Done("toBeLeftOf") =>
         /\ MatcherPassed <=> ~expectLeftOf(call.a, call.b).threw
         /\ outcome.threw => outcome = expectLeftOf(call.a, call.b)
    /\ Done("toBeAlignedWith") =>
         /\ MatcherPassed <=>
              ~expectAligned(call.a, call.b, call.axis, call.tolerance).threw
         /\ outcome.threw =>
              outcome = expectAligned(call.a, call.b, call.axis, call.tolerance)
    /\ Done("toOverlapWith") =>
         /\ MatcherPassed <=>
              expectNoOverlap(call.a, call.b) = Thrown("expectNoOverlap failed", 0)
         /\ outcome.threw => outcome = expectNoOverlap(call.a, call.b)

\* toBeLeftOf on two rectangles that share an edge returns pass = true
C10_Witness ==
    /\ Done("toBeLeftOf") /\ BothBounded
    /\ BoundsA.width > 0 /\ BoundsB.width > 0
    /\ BoundsA.x + BoundsA.width = BoundsB.x
    /\ MatcherPassed

-----------------------------------------------------------------------------
(* Messages of the matchers *)

Matchers ==
    {"toOverlapWith", "toBeContainedIn", "toBeAbove", "toBeLeftOf",
     "toBeAlignedWith"}

\* what each matcher expects of its operands, as its messages word it
Expectation(matcher) ==
    CASE matcher = "toOverlapWith" -> "overlap with"
      [] matcher = "toBeContainedIn" -> "be contained in"
      [] matcher = "toBeAbove" -> "be above"
      [] matcher = "toBeLeftOf" -> "be left of"
      [] matcher = "toBeAlignedWith" -> "be aligned with"

\* C11: whenever one of the five matchers returns a result, its message has
\* the polarity of pass: with pass = true it reads "expected ... NOT to ..."
\* (the text shown when a negated expectation fails), with pass = false it
\* reads "expected ... to ...".
C11_MessageMatchesPolarity ==
    \A matcher \in Matchers :
        Done(matcher) /\ ~outcome.threw =>
            outcome.message =
                IF outcome.pass
                THEN "expected NOT to " \o Expectation(matcher)
                ELSE "expected to " \o Expectation(matcher)

\* toBeLeftOf on a rectangle that lies right of the other returns
\* pass = false with the positive wording
C11_Witness ==
    /\ Done("toBeLeftOf") /\ BothBounded
    /\ BoundsA.x > BoundsB.x + BoundsB.width
    /\ ~outcome.threw /\ ~outcome.pass
    /\ outcome.message = "expected to be left of"

-----------------------------------------------------------------------------
(* The overflow report of a containment failure *)

Directions == {"Left", "Right", "Top", "Bottom"}

\* how far the child reaches past each edge of the parent
Overflow(child, parent, direction) ==
    CASE direction = "Left" -> parent.x - child.x
      [] direction = "Right" ->
             (child.x + child.width) - (parent.x + parent.width)
      [] direction = "Top" -> parent.y - child.y
      [] direction = "Bottom" ->
             (child.y + child.height) - (parent.y + parent.height)

\* the last call was a containment test of two bounded operands that failed
ContainmentFailed ==
    \/ Done("expectContainedIn") /\ Failed("expectContainedIn failed")
    \/ Done("toBeContainedIn") /\ ~outcome.threw /\ ~outcome.pass

\* C12: whenever the containment test fails, the overflow report has at
\* least one line, and it has a line for exactly the directions whose
\* overflow (left: parent.x - child.x, right: child.right - parent.right,
\* top: parent.y - child.y, bottom: child.bottom - parent.bottom) is
\* strictly positive, one line each, carrying that overflow.
C12_OverflowReportsPositiveDirections ==
    ContainmentFailed =>
        LET report == outcome.overflow
            lines == {report[i] : i \in 1..Len(report)}
        IN  /\ Len(report) >= 1
            /\ lines = {<<d, Overflow(BoundsA, BoundsB, d)>> :
                           d \in {e \in Directions :
                                      Overflow(BoundsA, BoundsB, e) > 0}}
            /\ Cardinality(lines) = Len(report)

\* a child whose right edge is at 120 in a parent whose right edge is at
\* 100: the report is the single line "Right: 20px"
C12_Witness ==
    /\ Done("expectContainedIn") /\ BothBounded
    /\ BoundsA = Rect(60, 30, 60, 40) /\ BoundsB = Rect(0, 0, 100, 100)
    /\ Failed("expectContainedIn failed")
    /\ outcome.overflow = << <<"Right", 20>> >>

-----------------------------------------------------------------------------
(* The grid of the overlap visualization *)

\* the columns and rows fillRect visits when it draws rect into the grid of
\* the last call
GridSpan(rect) ==
    LET minX == Min(BoundsA.x, BoundsB.x)
        minY == Min(BoundsA.y, BoundsB.y)
        totalW == Max(right(BoundsA), right(BoundsB)) - minX
        totalH == Max(bottom(BoundsA), bottom(BoundsB)) - minY
    IN  raster(rect, minX, minY, scaleOf(totalW, maxCols),
               scaleOf(totalH, maxRows))

Rasterized(span, cell) ==
    /\ span.startRow <= cell[1] /\ cell[1] < span.endRow
    /\ span.startCol <= cell[2] /\ cell[2] < span.endCol

\* C13: the grid drawn for two overlapping rectangles and their intersection
\* has at most 60 columns and at most 20 rows; a cell the rasterized
\* intersection covers shows '#', a cell both rasterized rectangles cover
\* shows '#', a cell only A covers shows 'A', a cell only B covers shows 'B'
\* and a cell neither covers is blank.
C13_GridWithinLimitsAndMarked ==
    Done("formatOverlapDebug") =>
        LET spanA == GridSpan(BoundsA)
            spanB == GridSpan(BoundsB)
            spanBoth == GridSpan(Intersection(BoundsA, BoundsB))
        IN  /\ outcome.cols <= maxCols
            /\ outcome.rows <= maxRows
            /\ \A cell \in DOMAIN outcome.grid :
                   LET inA == Rasterized(spanA, cell)
                       inB == Rasterized(spanB, cell)
                       inBoth == Rasterized(spanBoth, cell)
                       shown == outcome.grid[cell]
                   IN  /\ inBoth => shown = "#"
                       /\ inA /\ inB => shown = "#"
                       /\ inA /\ ~inB => shown = "A"
                       /\ inB /\ ~inA => shown = "B"
                       /\ ~inA /\ ~inB => shown = " "

-----------------------------------------------------------------------------
(* Values without bounds *)

BinaryPredicates ==
    {"expectNoOverlap", "expectContainedIn", "expectAligned", "expectMinGap",
     "expectAbove", "expectLeftOf"} \cup Matchers

\* the values handed to the last call of a layout predicate
GivenValues ==
    CASE call.op \in BinaryPredicates -> {call.a, call.b}
      [] call.op = "expectNoOverlaps" ->
             {call.objects[k] : k \in 1..Len(call.objects)}
      [] call.op = "expectAllContainedIn" ->
             {call.children[k] : k \in 1..Len(call.children)}
                 \cup {call.parent}
      [] call.op = "expectValidLayout" ->
             {call.children[k] : k \in 1..Len(call.children)}
                 \cup {call.container}
      [] OTHER -> {}

\* C14: resolveBounds returns a plain rectangle unchanged, returns the
\* getBounds() result of a game object, and raises the "Cannot get bounds"
\* error for a value that is neither; every layout predicate that is given
\* such a value raises that error, it neither passes nor fails its
\* assertion.
C14_UnresolvableRaisesBoundsError ==
    /\ Done("resolveBounds") =>
         IF call.a.kind \in {"rect", "object"}
         THEN ~outcome.threw /\ outcome.bounds = call.a.bounds
         ELSE outcome = BoundsError
    /\ pc = "done" /\ (\E v \in GivenValues : ~hasBounds(v)) =>
         outcome = BoundsError

-----------------------------------------------------------------------------
(* The bootstrap request *)

Resolved == promise.state = "resolved"

Rejected == promise.state = "rejected"

\* the step is the 5 s timer firing: it calls reject
TimeoutFires ==
    /\ timeoutIn = <<0>>
    /\ settleCalls' = Append(settleCalls, "reject")

\* C15 as stated: a bootstrap request ends in exactly one outcome, once: it
\* resolves with the handle or it fails with the timeout error.  A request
\* stays pending only while the 5 s timeout is still ahead, the timeout
\* firing on a pending request fails it with the timeout error, an outcome
\* never changes afterwards, and once the request has resolved the timeout
\* is no longer armed.
C15_ResolvesOrTimesOut ==
    /\ [](Resolved => promise.value = "handle" /\ timeoutIn = <<>>)
    /\ [](Rejected => promise.value = TimeoutError)
    /\ [](promise.state = "pending" => timeoutIn # <<>>)
    /\ [][TimeoutFires /\ promise.state = "pending" =>
            promise' = [state |-> "rejected", value |-> TimeoutError]]_vars
    /\ [][Resolved \/ Rejected => promise' = promise]_vars

\* C15, amended: the request can also fail at once, with the exception the
\* engine raised while it was constructed; otherwise as stated.
C15_ResolvesTimesOutOrEngineFails ==
    /\ [](Resolved => promise.value = "handle" /\ timeoutIn = <<>>)
    /\ [](Rejected =>
            \/ promise.value = TimeoutError
            \/ promise.value = "engine error" /\ engine.phase = "failed")
    /\ [](promise.state = "pending" => timeoutIn # <<>>)
    /\ [][TimeoutFires /\ promise.state = "pending" =>
            promise' = [state |-> "rejected", value |-> TimeoutError]]_vars
    /\ [][Resolved \/ Rejected => promise' = promise]_vars

\* the request timed out, and the scene was seen running afterwards: resolve
\* was called on the rejected promise and changed nothing
C15_Witness ==
    /\ promise = [state |-> "rejected", value |-> TimeoutError]
    /\ settleCalls = <<"reject", "resolve">>
    /\ timeoutIn = <<>>

-----------------------------------------------------------------------------
(* Frames before and after the resolution *)

\* C16: whenever the bootstrap has resolved the engine's own loop is stopped
\* (the poll stops it before it resolves), and from then on every run of the
\* frame pipeline is a frame requested through step: pipeline runs and
\* requested frames grow by the same amount in every step.
C16_OnlyStepRunsFramesAfterResolve ==
    /\ [](Resolved => ~loopRunning)
    /\ [][Resolved =>
            pipelineRuns' - pipelineRuns = requested' - requested]_vars

\* after a frame of the engine's own loop the bootstrap resolved, then step
\* was called for one frame and for five: six runs since the resolution
C16_Witness ==
    /\ Resolved /\ ~loopRunning
    /\ autoRuns = 1
    /\ requested = 6
    /\ pipelineRuns = 7

\* C17: at the moment createTestGame resolves the scene's update callback
\* has not run, however the readiness poll and the frames of the engine's
\* loop interleave; so the number of updates after the resolution is the
\* number of frames stepped (1 after step(game), 6 after a further
\* step(game, 5)).
C17_NoUpdateBeforeResolve ==
    /\ [][~Resolved /\ Resolved' => updateCount' = 0]_vars
    /\ [](Resolved => updateCount = requested)

\* the last call of step has returned
Stepped == call.op = "step"

\* the arguments of the last call of step, with their defaults
FramesAsked == IF call.frames = <<>> THEN 1 ELSE call.frames[1]

DeltaAsked == IF call.deltaMs = <<>> THEN DEFAULT_DELTA_MS ELSE call.deltaMs[1]

\* C18: step(game, frames, deltaMs) calls game.headlessStep exactly frames
\* times (once when frames is omitted); the k-th call receives the time
\* base + k * deltaMs and the delta deltaMs, where base is the loop's last
\* time when step was entered (0 when the loop ran no frame) and deltaMs is
\* 1000 / 60 ms when omitted.
C18_StepRunsFramesOnClock ==
    Stepped =>
        /\ Len(log) = FramesAsked
        /\ \A k \in 1..Len(log) :
               log[k] = <<loopNow + k * DeltaAsked, DeltaAsked>>

\* step(game, 5) after the loop had run one frame: the fifth call receives
\* six frame intervals
C18_Witness ==
    /\ Stepped /\ call.frames = <<5>> /\ call.deltaMs = <<>>
    /\ autoRuns = 1
    /\ Len(log) = 5
    /\ log[5] = <<6 * DEFAULT_DELTA_MS, DEFAULT_DELTA_MS>>

-----------------------------------------------------------------------------
(* The configuration of the engine *)

\* createTestGame was called last
Bootstrapped == call.op = "createTestGame"

\* the override bag of the call ({} when omitted)
BagGiven ==
    IF call.config.gameConfig = <<>> THEN <<>> ELSE call.config.gameConfig[1]

\* what createTestGame sets when the caller says nothing
DefaultSetting(key) ==
    CASE key = "type" -> "HEADLESS"
      [] key = "width" -> 800
      [] key = "height" -> 600
      [] key = "audio" -> [noAudio |-> TRUE]
      [] key = "banner" -> FALSE

\* C19: the configuration the engine is constructed with is the defaults
\* (800 x 600, no audio, no banner, headless), overlaid with the override
\* bag, overlaid with the scene: a key of the bag other than scene has the
\* bag's value, width and height given outside the bag are used when the bag
\* does not name them, and scene is the scene of the bootstrap config even
\* when the bag names a scene.
C19_DefaultsThenOverridesThenScene ==
    Bootstrapped =>
        LET made == engine.config
            given == call.config
        IN  /\ DOMAIN made =
                   {"type", "width", "height", "audio", "banner", "scene"}
                       \cup DOMAIN BagGiven
            /\ made.scene = given.scene
            /\ \A key \in DOMAIN made \ {"scene"} :
                   made[key] =
                       IF key \in DOMAIN BagGiven THEN BagGiven[key]
                       ELSE IF key = "width" /\ given.width # <<>>
                       THEN given.width[1]
                       ELSE IF key = "height" /\ given.height # <<>>
                       THEN given.height[1]
                       ELSE DefaultSetting(key)

\* width 1024 is given and the bag names width 640 and another scene: the
\* engine gets width 640 and the scene of the bootstrap config
C19_Witness ==
    /\ Bootstrapped
    /\ call.config.width = <<1024>>
    /\ DOMAIN BagGiven = {"width", "scene"}
    /\ engine.config.width = 640
    /\ engine.config.scene = "MyScene"

\* C20 as stated: whatever the bootstrap config and its override bag, the
\* engine is constructed headless, with the banner off and without audio.
C20_AlwaysHeadless ==
    Bootstrapped =>
        /\ engine.config.type = "HEADLESS"
        /\ engine.config.banner = FALSE
        /\ engine.config.audio = [noAudio |-> TRUE]

\* C20, amended: the engine is constructed headless, with the banner off and
\* without audio as far as the override bag does not name type, banner or
\* audio; a bag that names one of them sets it.
C20_HeadlessUnlessOverridden ==
    Bootstrapped =>
        \A key \in {"type", "banner", "audio"} :
            engine.config[key] =
                IF key \in DOMAIN BagGiven THEN BagGiven[key]
                ELSE DefaultSetting(key)

\* gameConfig: {type: Phaser.CANVAS} constructs a rendering engine
C20_Witness ==
    /\ Bootstrapped
    /\ DOMAIN BagGiven = {"type"}
    /\ engine.config.type = "CANVAS"

-----------------------------------------------------------------------------
(* Teardown *)

\* handle.destroy() was called last and has returned
Destroyed == call.op = "destroy"

\* C21: when handle.destroy() returns, the engine has released what it held
\* (scenes, listeners, canvas, loop), within the call and without a further
\* frame; and once destroy has been called neither timer of the bootstrap is
\* armed, so no callback of the bootstrap fires.
C21_TeardownReleasesWithinCall ==
    /\ Destroyed => engine.phase = "destroyed"
    /\ (pendingDestroy \/ engine.phase = "destroyed") =>
           timeoutIn = <<>> /\ pollIn = <<>>

-----------------------------------------------------------------------------
(* The scene at the resolution *)

\* the step resolves the bootstrap request
Resolves == ~Resolved /\ Resolved'

-----------------------------------------------------------------------------
(* Simulated keys *)

HasKeyboard == input.manager /\ input.keyboard

KeyEvent(type) == [type |-> type, keyCode |-> call'.keyCode]

\* C23: simulateKeyDown and simulateKeyUp each append one event of their
\* type and key code to the end of the keyboard manager's queue and leave
\* the entries before it as they were; simulateKeyPress grows the queue by
\* two, the keydown entry immediately before the keyup entry; without an
\* input manager or without a keyboard manager the three change nothing and
\* return normally.
C23_KeyCallsAppendToQueue ==
    [][ /\ CallSimulateKeyDown =>
             keyQueue' = IF HasKeyboard
                         THEN Append(keyQueue, KeyEvent("keydown"))
                         ELSE keyQueue
        /\ CallSimulateKeyUp =>
             keyQueue' = IF HasKeyboard
                         THEN Append(keyQueue, KeyEvent("keyup"))
                         ELSE keyQueue
        /\ CallSimulateKeyPress =>
             IF HasKeyboard
             THEN /\ Len(keyQueue') = Len(keyQueue) + 2
                  /\ SubSeq(keyQueue', 1, Len(keyQueue)) = keyQueue
                  /\ keyQueue'[Len(keyQueue) + 1] = KeyEvent("keydown")
                  /\ keyQueue'[Len(keyQueue) + 2] = KeyEvent("keyup")
             ELSE keyQueue' = keyQueue
        /\ (CallSimulateKeyDown \/ CallSimulateKeyUp \/ CallSimulateKeyPress)
              => outcome' = Returned ]_vars

\* a key press of A was added to a queue that held the release of SPACE
C23_Witness ==
    /\ call = [op |-> "simulateKeyPress", keyCode |-> 65]
    /\ keyQueue = << [type |-> "keyup", keyCode |-> 32],
                     [type |-> "keydown", keyCode |-> 65],
                     [type |-> "keyup", keyCode |-> 65] >>

-----------------------------------------------------------------------------
(* Forcing the textures ready *)

\* the calls and signals of the texture manager since createTestGame
\* received it from the engine's constructor
ForcedOps == SubSeq(textures.log, Len(call.textures.log) + 1, Len(textures.log))

\* the positions of op in a sequence of calls
PositionsOf(op, ops) == {k \in 1..Len(ops) : ops[k] = op}

\* C24: the forced completion emits ready at most once per bootstrap, and
\* only after every one of the three placeholder keys exists (a placeholder
\* is created for exactly the keys that were not present, once each), then
\* the pending counter is set to 0, then the load and error listeners are
\* removed; when the pending counter is 0 on entry it creates nothing,
\* removes nothing and emits nothing.
C24_ForcedReadyOnceAndLast ==
    (Bootstrapped /\ engine.phase # "failed") =>
        LET before == call.textures
            ops == ForcedOps
            n == Len(ops)
            missing == DefaultKeySet \ before.keys
        IN  /\ Cardinality(PositionsOf(<<"emit", "ready">>, ops)) <= 1
            /\ before.pending = 0 => textures = before /\ ops = <<>>
            /\ before.pending # 0 =>
                  /\ n = Cardinality(missing) + 4
                  /\ \A key \in missing :
                         \E k \in 1..(n - 4) :
                            PositionsOf(<<"createCanvas", key>>, ops) = {k}
                  /\ \A key \in before.keys :
                         PositionsOf(<<"createCanvas", key>>, ops) = {}
                  /\ ops[n - 3] = <<"_pending", 0>>
                  /\ {ops[n - 2], ops[n - 1]} =
                         {<<"off", "load">>, <<"off", "error">>}
                  /\ ops[n] = <<"emit", "ready">>
                  /\ textures.keys = DefaultKeySet
                  /\ textures.pending = 0
                  /\ textures.listeners = {}

\* one builtin image had loaded and two were pending: placeholders were
\* created for the other two keys only
C24_Witness ==
    /\ Bootstrapped
    /\ call.textures = Loading(2, {"__MISSING"})
    /\ textures.log = << <<"createCanvas", "__DEFAULT">>,
                         <<"createCanvas", "__WHITE">>, <<"_pending", 0>>,
                         <<"off", "load">>, <<"off", "error">>,
                         <<"emit", "ready">> >>

-----------------------------------------------------------------------------
(* How often an operand is resolved *)

ListPredicates == {"expectNoOverlaps", "expectAllContainedIn", "expectValidLayout"}

\* the elements of the list the last call was given
ListGiven == IF call.op = "expectNoOverlaps" THEN call.objects ELSE call.children

\* the operands of the last call, as positions
OperandPositions ==
    CASE call.op \in BinaryPredicates -> {1, 2}
      [] call.op = "expectNoOverlaps" -> 1..Len(call.objects)
      [] call.op \in {"expectAllContainedIn", "expectValidLayout"} ->
             0..Len(call.children)
      [] OTHER -> {}

\* the number of times the operand at position p was resolved
TimesResolved(p) == Cardinality({k \in 1..Len(resolved) : resolved[k] = p})

\* every operand of the last call can be resolved
AllBounded ==
    CASE call.op \in BinaryPredicates -> BothBounded
      [] call.op = "expectNoOverlaps" ->
             \A k \in 1..Len(call.objects) : hasBounds(call.objects[k])
      [] call.op = "expectAllContainedIn" ->
             /\ \A k \in 1..Len(call.children) : hasBounds(call.children[k])
             /\ hasBounds(call.parent)
      [] call.op = "expectValidLayout" ->
             /\ \A k \in 1..Len(call.children) : hasBounds(call.children[k])
             /\ hasBounds(call.container)
      [] OTHER -> FALSE

\* C25 as stated: every layout predicate, the list predicates included,
\* resolves each of its operands exactly once per call (every element of
\* the list and the parent or container).
C25_EachOperandResolvedOnce ==
    (pc = "done" /\ call.op \in BinaryPredicates \cup ListPredicates
        /\ AllBounded /\ Passed) =>
        \A p \in OperandPositions : TimesResolved(p) = 1

\* the two passes of expectValidLayout that the options switch on
Contains == call.op = "expectAllContainedIn"
               \/ (call.op = "expectValidLayout"
                      /\ optionOrTrue(call.opts, "containChildren"))

Compares == call.op = "expectNoOverlaps"
               \/ (call.op = "expectValidLayout"
                      /\ optionOrTrue(call.opts, "noOverlaps"))

\* C25, amended: a binary predicate resolves each of its operands exactly
\* once, the first before the second.  A list predicate resolves per
\* sub-check: when it passes on n elements, the pairwise pass has resolved
\* every element n - 1 times, the containment pass has resolved every child
\* once and the parent n times, and expectValidLayout has done the passes
\* its options switch on; when it fails it has resolved no operand more
\* often than that.
C25_ResolvedOncePerSubCheck ==
    (pc = "done" /\ call.op \in BinaryPredicates \cup ListPredicates
        /\ AllBounded) =>
        IF call.op \in BinaryPredicates THEN resolved = <<1, 2>>
        ELSE LET n == Len(ListGiven)
                 perElement == (IF Compares THEN n - 1 ELSE 0)
                                  + (IF Contains THEN 1 ELSE 0)
                 perParent == IF Contains THEN n ELSE 0
             IN  /\ \A p \in 1..n :
                        IF Passed THEN TimesResolved(p) = perElement
                        ELSE TimesResolved(p) <= perElement
                 /\ IF Passed THEN TimesResolved(0) = perParent
                    ELSE TimesResolved(0) <= perParent

\* expectValidLayout passed on two children: each child and the container
\* were resolved twice
C25_Witness ==
    /\ Done("expectValidLayout") /\ AllBounded /\ Passed
    /\ Len(call.children) = 2
    /\ Compares /\ Contains
    /\ resolved = <<1, 0, 2, 0, 1, 2>>

-----------------------------------------------------------------------------
(* Exceptions of the engine *)

\* C26: an exception the engine raises reaches the caller unchanged.  Raised
\* in a frame of step, it ends the call at that frame (no later frame of the
\* call is run) and leaves step.  Raised during the bootstrap (while the
\* engine is constructed, while its textures are forced ready, or inside a
\* readiness poll) it is what the bootstrap request fails with: it is not
\* lost, and the request does not fail with the timeout error instead.
C26_EngineExceptionReachesCaller ==
    /\ (Stepped /\ outcome.threw) =>
          /\ outcome = EngineError
          /\ Len(log) <= FramesAsked
    /\ engine.phase = "failed" =>
          promise = [state |-> "rejected", value |-> "engine error"]
    /\ uncaught # <<>> =>
          promise = [state |-> "rejected", value |-> "engine error"]

-----------------------------------------------------------------------------
(* The clock over several calls of step *)

\* C27: successive calls of step continue one clock: with deltaMs > 0 the
\* times handed to game.headlessStep grow strictly within a call, and the
\* first frame of a call receives a later time than the last frame of the
\* call of step before it.
C27_ClockContinuesAcrossCalls ==
    /\ [](Stepped =>
            \A k \in 1..(Len(log) - 1) : log[k + 1][1] > log[k][1])
    /\ [][(CallStep /\ Stepped /\ log # <<>> /\ log' # <<>>) =>
            log'[1][1] > log[Len(log)][1]]_vars

-----------------------------------------------------------------------------
(* The end of the polling *)

TimedOut == promise = [state |-> "rejected", value |-> TimeoutError]

\* C28: once the bootstrap request has its outcome (resolved or timed out)
\* no readiness poll is scheduled any more, so none fires; and a bootstrap
\* that has timed out does nothing further to its engine: it does not stop
\* the loop later and does not call resolve.
C28_NoPollAfterOutcome ==
    /\ []((Resolved \/ TimedOut) => pollIn = <<>>)
    /\ [][TimedOut =>
            /\ loopRunning' = loopRunning
            /\ settleCalls' = settleCalls]_vars

-----------------------------------------------------------------------------
(* The state of the simulated pointer *)

HasMouse == input.manager /\ input.mouse

\* C29: after any sequence of simulatePointerDown, simulatePointerUp and
\* simulatePointerMove with any buttons the pointer is consistent: when its
\* primary button is marked down the pointer is down; its previous position
\* is the position it had before the last event, and its position is that
\* of the last event.
C29_PointerStateConsistent ==
    /\ [](HasMouse => (pointer.primaryDown => pointer.isDown))
    /\ [][( /\ HasMouse
            /\ \/ CallSimulatePointerDown
               \/ CallSimulatePointerUp
               \/ CallSimulatePointerMove ) =>
            /\ pointer'.prevPosition = pointer.position
            /\ pointer'.position = <<call'.x, call'.y>>]_vars

-----------------------------------------------------------------------------
(* The predicates against one another *)

\* the last call was one of the four predicates, on two rectangles
ComparedPair ==
    /\ pc = "done"
    /\ call.op \in {"expectNoOverlap", "expectMinGap", "expectAbove",
                     "expectLeftOf"}
    /\ BothBounded

\* C30: on every pair of rectangles a, b the predicates agree:
\* expectNoOverlap(a, b) passes iff expectMinGap(a, b, 0) passes;
\* expectMinGap(a, b, g) and expectNoOverlap(a, b) have the same outcome
\* with a and b swapped; and when expectAbove(a, b) or expectLeftOf(a, b)
\* passes, expectNoOverlap(a, b) passes.  The outcome of the call itself is
\* the one these relations speak of.
C30_PredicatesAgree ==
    ComparedPair =>
        LET a == call.a
            b == call.b
            pass(r) == ~r.threw
        IN  /\ pass(expectNoOverlap(a, b)) <=> pass(expectMinGap(a, b, 0))
            /\ expectNoOverlap(a, b) = expectNoOverlap(b, a)
            /\ \A g \in MinPixels :
                   expectMinGap(a, b, g) = expectMinGap(b, a, g)
            /\ (pass(expectAbove(a, b)) \/ pass(expectLeftOf(a, b)))
                   => pass(expectNoOverlap(a, b))
            /\ outcome =
                   CASE call.op = "expectNoOverlap" -> expectNoOverlap(a, b)
                     [] call.op = "expectMinGap" ->
                            expectMinGap(a, b, call.minPixels)
                     [] call.op = "expectAbove" -> expectAbove(a, b)
                     [] call.op = "expectLeftOf" -> expectLeftOf(a, b)

\* two rectangles of positive size that share an edge pass a required gap
\* of 0, and they pass expectNoOverlap
C30_Witness ==
    /\ Done("expectMinGap") /\ BothBounded
    /\ call.minPixels = 0
    /\ BoundsA.width > 0 /\ BoundsA.height > 0
    /\ BoundsB.width > 0 /\ BoundsB.height > 0
    /\ GapOf(BoundsA, BoundsB) = 0
    /\ Passed
    /\ ~expectNoOverlap(call.a, call.b).threw

====
